---- MODULE Spec2Model ----
(***************************************************************************)
(* A model of the reconcilers of the NATS account operator: one resource   *)
(* (an Account or a User, fixed per behaviour) is reconciled against the   *)
(* object store, its issuer, its secrets and the remote token authority.   *)
(* One reconcile pass is one action; the environment (spec edits, deletion *)
(* requests, secret tampering, issuer changes) acts between passes.        *)
(***************************************************************************)
EXTENDS Naturals, Sequences, FiniteSets, TLC

VARIABLES
    kind,       \* "Account" or "User": the kind of the reconciled resource
    build,      \* "current" or "previous": the revision of its reconciler
    obj,        \* its metadata and spec in the store
    status,     \* its status sub-resource in the store
    seedSecret, \* the secret named spec.seedSecretName
    jwtSecret,  \* the secret named spec.jwtSecretName
    credsSecret,\* the secret named spec.credentialsSecretName (User)
    parent,     \* the Operator (for an Account) or Account (for a User)
    sk,         \* the SigningKey a spec may name as issuer
    skList,     \* the SigningKeys listed in the resource's namespace
    remote,     \* public keys whose token the remote authority holds
    deleteCalls,\* delete-by-public-key calls made so far
    budget,     \* environment changes and injected failures left
    last,       \* what the last reconcile pass did
    watch,      \* the SigningKey watch: its events, requests and work queue
    api         \* a request to the store under study: its inputs and its answer

vars == <<kind, build, obj, status, seedSecret, jwtSecret, credsSecret, parent, sk,
          skList, remote, deleteCalls, budget, last, watch, api>>

\* ------------------------------------------------------------------ bounds
MaxKey == 2
MaxClock == 1
MaxSpec == 1
MaxEnv == 1

\* ------------------------------------------------------------- key material
\* A seed is a prefix byte and key bytes; undecodable bytes have prefix "bad".
BadSeed == [p |-> "bad", n |-> 0]
NewSeed(p, n) == [p |-> p, n |-> n]
SeedDecodes(seed) == seed.p # "bad"
NoKey == [k |-> "none", id |-> 0]
PubOf(seed) == IF SeedDecodes(seed) THEN [k |-> seed.p, id |-> seed.n] ELSE NoKey
PrefixOf(k) == IF k = "Operator" THEN "O" ELSE IF k = "Account" THEN "A" ELSE "U"

NoSecret == [exists |-> FALSE, has |-> FALSE, seed |-> BadSeed, drift |-> FALSE]
SeedSecretOf(seed) == [exists |-> TRUE, has |-> TRUE, seed |-> seed, drift |-> FALSE]

SeedSecretName == "seed"

\* ------------------------------------------------------------------ tokens
\* A token is a signed claim set with the issuance time it was built at; a
\* stored value that does not decode has ok = FALSE.
NoClaims == [sub |-> NoKey, iss |-> NoKey, spec |-> 0, sks |-> {}, iat |-> 0]
NoToken == [ok |-> FALSE, claims |-> NoClaims]
NoJWT == [exists |-> FALSE, has |-> FALSE, jwt |-> NoToken]
JWTSecretOf(t) == [exists |-> TRUE, has |-> TRUE, jwt |-> t]
Decodes(t) == t.ok
NoCreds == [exists |-> FALSE, jwt |-> NoToken, seed |-> BadSeed]

\* -------------------------------------------------------------- conditions
AccountConds == {"SeedSecretReady", "IssuerResolved", "OwnerResolved",
                 "SigningKeysUpdated", "JWTSecretReady", "JWTPushed"}
UserConds == {"SeedSecretReady", "IssuerResolved", "OwnerResolved",
              "JWTSecretReady", "CredentialsSecretReady"}
CondTypes == AccountConds \cup UserConds
CondsOf(k) == IF k = "Account" THEN AccountConds ELSE UserConds
CUnknown == [s |-> "Unknown", r |-> ""]
CTrue == [s |-> "True", r |-> ""]
NoKeyPair == [set |-> FALSE, pk |-> NoKey, secret |-> ""]
EmptyStatus == [init |-> FALSE, conds |-> [c \in CondTypes |-> CUnknown],
                keyPair |-> NoKeyPair, ownerRef |-> "", sks |-> <<>>]

InitializeConditions(st) == [st EXCEPT !.init = TRUE]
IsTrue(st, c) == st.conds[c].s = "True"
IsReady(k, st) == \A c \in CondsOf(k) : IsTrue(st, c)
Mark(st, c, s, r) == [st EXCEPT !.conds[c] = [s |-> s, r |-> r]]
MarkSeedSecretReady(st, pk, name) ==
    [Mark(st, "SeedSecretReady", "True", "") EXCEPT
        !.keyPair = [set |-> TRUE, pk |-> pk, secret |-> name]]
MarkOwnerResolved(st, name) ==
    [Mark(st, "OwnerResolved", "True", "") EXCEPT !.ownerRef = name]
MarkSigningKeysUpdated(st, sks) ==
    [Mark(st, "SigningKeysUpdated", "True", "") EXCEPT !.sks = sks]
\* A condition error: kind "Failed" or "Unknown" with its reason, or none.
NoCErr == [k |-> "nil", r |-> ""]
ConditionFailed(r) == [k |-> "Failed", r |-> r]
ConditionUnknown(r) == [k |-> "Unknown", r |-> r]
MarkCondition(st, c, ce) ==
    Mark(st, c, IF ce.k = "Failed" THEN "False" ELSE "Unknown", ce.r)

\* ------------------------------------------------ issuers and their owners
ParentKind(k) == IF k = "Account" THEN "Operator" ELSE "Account"
SchemeKinds == {"Operator", "Account", "User", "SigningKey"}
IssuerKinds == SchemeKinds \cup {"Bogus"}
ParentName == "P"
\* A key-pair-bearing object with the seed secret its status names.
GoodObj(k, p, n) ==
    [kind |-> k, exists |-> TRUE, seedReady |-> TRUE, hasKP |-> TRUE,
     pk |-> PubOf(NewSeed(p, n)), seed |-> SeedSecretOf(NewSeed(p, n)),
     ownerResolved |-> FALSE, ownerKind |-> "", ownerGone |-> FALSE,
     sysSelf |-> FALSE, sys |-> "ok", tls |-> "ok"]
\* An object of a registered kind that is neither the parent nor a SigningKey.
Stranger(k) == GoodObj(k, PrefixOf(k), MaxKey)
IssuerObject(ik) ==
    IF ik = ParentKind(kind) THEN parent
    ELSE IF ik = "SigningKey" THEN sk
    ELSE Stranger(ik)
\* The owner a SigningKey's status names.
NoObj ==
    [kind |-> "", exists |-> FALSE, seedReady |-> FALSE, hasKP |-> FALSE,
     pk |-> NoKey, seed |-> NoSecret, ownerResolved |-> FALSE,
     ownerKind |-> "", ownerGone |-> FALSE, sysSelf |-> FALSE, sys |-> "ok",
     tls |-> "ok"]
OwnerObject(key) ==
    IF key.ownerGone THEN NoObj
    ELSE IF key.ownerKind = ParentKind(kind) THEN parent
    ELSE Stranger(key.ownerKind)
Res(o, ok, ce) == [o |-> o, ok |-> ok, ce |-> ce]

\* resolveIssuer treating an absent issuer like any other failed fetch.
resolveIssuer_NotFoundUnhandled(ik, f) ==
    IF ik \notin SchemeKinds
    THEN Res(NoObj, TRUE, ConditionFailed("UnsupportedIssuer"))
    ELSE IF f = "getIssuer" \/ ~IssuerObject(ik).exists
    THEN Res(NoObj, FALSE, ConditionUnknown("UnknownError"))
    ELSE IF ~IssuerObject(ik).seedReady
    THEN Res(NoObj, TRUE, ConditionUnknown("NotReady"))
    ELSE Res(IssuerObject(ik), TRUE, NoCErr)

\* resolveIssuer handing out an issuer whose seed secret is not ready.
resolveIssuer_IgnoreReady(ik, f) ==
    IF ik \notin SchemeKinds
    THEN Res(NoObj, TRUE, ConditionFailed("UnsupportedIssuer"))
    ELSE IF f = "getIssuer"
    THEN Res(NoObj, FALSE, ConditionUnknown("UnknownError"))
    ELSE IF ~IssuerObject(ik).exists
    THEN Res(NoObj, TRUE, ConditionFailed("NotFound"))
    ELSE Res(IssuerObject(ik), TRUE, NoCErr)

\* BaseReconciler.resolveIssuer: the object a spec's issuer reference names.
resolveIssuer(ik, f) ==
    IF ik \notin SchemeKinds
    THEN Res(NoObj, TRUE, ConditionFailed("UnsupportedIssuer"))
    ELSE IF f = "getIssuer"
    THEN Res(NoObj, FALSE, ConditionUnknown("UnknownError"))
    ELSE IF ~IssuerObject(ik).exists
    THEN Res(NoObj, TRUE, ConditionFailed("NotFound"))
    ELSE IF ~IssuerObject(ik).seedReady
    THEN Res(NoObj, TRUE, ConditionUnknown("NotReady"))
    ELSE Res(IssuerObject(ik), TRUE, NoCErr)

\* BaseReconciler.resolveSigningKeyOwner
resolveSigningKeyOwner(key, f) ==
    IF ~key.ownerResolved
    THEN Res(NoObj, TRUE, ConditionUnknown("NotReady"))
    ELSE IF key.ownerKind \notin SchemeKinds
    THEN Res(NoObj, TRUE, ConditionFailed("InvalidSigningKeyOwner"))
    ELSE IF f = "getOwner"
    THEN Res(NoObj, FALSE, ConditionUnknown("UnknownError"))
    ELSE IF ~OwnerObject(key).exists
    THEN Res(NoObj, TRUE, ConditionFailed("NotFound"))
    ELSE Res(OwnerObject(key), TRUE, NoCErr)

\* ------------------------------------------------------------ claims, tokens
\* nsc.CreateAccountClaims / nsc.CreateUserClaims: the canonical claims of the
\* resource, and the candidate token signed now.
CanonicalClaims(st, spec, issuerPk, t) ==
    [sub |-> st.keyPair.pk, iss |-> issuerPk, spec |-> spec,
     sks |-> {st.sks[i].pk : i \in DOMAIN st.sks}, iat |-> t]
Sign(claims) == [ok |-> TRUE, claims |-> claims]
\* nsc.Equality: semantic equality of claims that leaves the issuance time out.
ClaimsEqual(a, b) == [a EXCEPT !.iat = 0] = [b EXCEPT !.iat = 0]

\* A listed SigningKey as a membership entry {name, publicKey}.
Entry(k) == [name |-> k.name, pk |-> k.pk]
Range(seq) == {seq[i] : i \in DOMAIN seq}
\* helpers.NextSigningKeys: the listed keys that are ready and owned by the
\* resource, as {name, publicKey}. Entries already recorded keep their
\* place; new ones follow in listing order.
NextSigningKeys(prev, list) ==
    LET Qualifies(k) == k.ready /\ k.mine
        want == {Entry(k) : k \in {x \in Range(list) : Qualifies(x)}}
        Kept(e) == e \in want
        kept == SelectSeq(prev, Kept)
        New(k) == Qualifies(k) /\ Entry(k) \notin Range(kept)
        new == SelectSeq(list, New)
    IN  kept \o [i \in DOMAIN new |-> Entry(new[i])]
\* helpers.IsSystemAccount
IsSystemAccount(operator) == operator.sysSelf

\* ------------------------------------------------------------ a pass's state
\* What one pass holds in memory and has done so far. stop: Reconcile has
\* returned; err: it returned an error to the delivery layer.
Pass0 ==
    [st |-> InitializeConditions(status), fin |-> obj.finalizer,
     gone |-> FALSE, seed |-> seedSecret, jwt |-> jwtSecret,
     creds |-> credsSecret, rem |-> remote, calls |-> <<>>, writes |-> <<>>,
     events |-> <<>>, stop |-> FALSE, err |-> FALSE, stage |-> "start",
     issuer |-> NoObj, owner |-> NoObj, issuerSeed |-> BadSeed,
     want |-> NoClaims, token |-> NoToken, fz |-> "none", requeue |-> 0]
Return(m, e) == [m EXCEPT !.stop = TRUE, !.err = e]
At(m, stage) == [m EXCEPT !.stage = stage]
\* The next stage S, unless Reconcile has returned; m is evaluated once.
Then(m, S(_)) == CHOOSE r \in {IF y.stop THEN y ELSE S(y) : y \in {m}} : TRUE
Called(m, c) == [m EXCEPT !.calls = Append(@, c)]
Count(seq, x) == Cardinality({i \in DOMAIN seq : seq[i] = x})
Has(seq, x) == \E i \in DOMAIN seq : seq[i] = x

\* ------------------------------------------------------- Account: seed stage
\* AccountReconciler.createSeedSecret: n is the key the generator draws.
Acc_createSeedSecret(m, f, n) ==
    IF f \in {"keygen", "createSeed"}
    THEN Return([m EXCEPT !.st = Mark(@, "SeedSecretReady", "False", "UnknownError")], TRUE)
    ELSE [m EXCEPT !.seed = SeedSecretOf(NewSeed("A", n)),
                   !.writes = Append(@, "createSeed"),
                   !.events = Append(@, "SeedSecretCreated"),
                   !.st = MarkSeedSecretReady(@, PubOf(NewSeed("A", n)), SeedSecretName)]

\* A seed check that marks the condition True but keeps the recorded key pair.
Acc_ensureSeedSecretUpToDate_KeepKeyPair(m, f) ==
    IF ~m.seed.has \/ ~SeedDecodes(m.seed.seed)
    THEN Return([m EXCEPT !.st = Mark(@, "SeedSecretReady", "False", "InvalidSeedSecret")], FALSE)
    ELSE [m EXCEPT !.seed.drift = FALSE,
                   !.st = Mark(@, "SeedSecretReady", "True", "")]

\* AccountReconciler.ensureSeedSecretUpToDate
Acc_ensureSeedSecretUpToDate(m, f) ==
    IF ~m.seed.has \/ ~SeedDecodes(m.seed.seed)
    THEN Return([m EXCEPT !.st = Mark(@, "SeedSecretReady", "False", "InvalidSeedSecret")], FALSE)
    ELSE IF m.seed.drift /\ f = "updateSeed"
    THEN Return([m EXCEPT !.st = Mark(@, "SeedSecretReady", "Unknown", "UnknownError")], TRUE)
    ELSE [m EXCEPT !.seed.drift = FALSE,
                   !.writes = IF m.seed.drift THEN Append(@, "updateSeed") ELSE @,
                   !.events = IF m.seed.drift THEN Append(@, "SeedSecretUpdated") ELSE @,
                   !.st = MarkSeedSecretReady(@, PubOf(m.seed.seed), SeedSecretName)]

\* A seed stage that draws a new key pair on every pass.
Acc_reconcileSeedSecret_AlwaysCreate(m, f, n) == Acc_createSeedSecret(m, f, n)

\* AccountReconciler.reconcileSeedSecret
Acc_reconcileSeedSecret(m, f, n) ==
    IF f = "getSeed"
    THEN Return([m EXCEPT !.st = Mark(@, "SeedSecretReady", "Unknown", "UnknownError")], TRUE)
    ELSE IF ~m.seed.exists
    THEN Acc_createSeedSecret(m, f, n)
    ELSE Acc_ensureSeedSecretUpToDate(m, f)

\* ------------------------------------------- Account: issuer, owner, keys
\* An issuer stage that returns every resolveIssuer error to the caller.
Acc_issuerStage_ReturnAll(m, f) ==
    LET r == resolveIssuer(obj.issuerKind, f) IN
    IF r.ce.k # "nil" \/ ~r.ok
    THEN Return([m EXCEPT !.st = MarkCondition(@, "IssuerResolved", r.ce)], TRUE)
    ELSE [m EXCEPT !.issuer = r.o]

\* AccountReconciler.Reconcile, the issuer stage
Acc_issuerStage(m, f) ==
    LET r == resolveIssuer(obj.issuerKind, f) IN
    IF r.ce.k # "nil" \/ ~r.ok
    THEN Return([m EXCEPT !.st = MarkCondition(@, "IssuerResolved", r.ce)], ~r.ok)
    ELSE [m EXCEPT !.issuer = r.o]

\* AccountReconciler.resolveOperator. When the owner lookup reports a handled
\* condition error it returns (nil, true, nil), and Reconcile goes on with no
\* operator.
Acc_resolveOperator(m, f) ==
    IF m.issuer.kind = "Operator"
    THEN [m EXCEPT !.owner = m.issuer, !.st = MarkOwnerResolved(@, ParentName)]
    ELSE IF m.issuer.kind = "SigningKey"
    THEN LET r == resolveSigningKeyOwner(m.issuer, f) IN
         IF r.ce.k # "nil" \/ ~r.ok
         THEN IF r.ok
              THEN [m EXCEPT !.st = MarkCondition(@, "OwnerResolved", r.ce)]
              ELSE Return([m EXCEPT !.st = MarkCondition(@, "OwnerResolved", r.ce)], TRUE)
         ELSE IF r.o.kind # "Operator"
         THEN Return([m EXCEPT !.st = Mark(@, "OwnerResolved", "False", "InvalidSigningKeyOwner")], FALSE)
         ELSE [m EXCEPT !.owner = r.o, !.st = MarkOwnerResolved(@, ParentName)]
    ELSE Return([m EXCEPT !.st = Mark(@, "OwnerResolved", "False", "UnsupportedIssuer")], FALSE)

\* A signing-key stage that leaves the status alone when the membership is
\* unchanged.
Acc_ensureSigningKeysUpdated_SkipUnchanged(m, f) ==
    IF f = "listSK"
    THEN Return(m, TRUE)
    ELSE LET nextSKs == NextSigningKeys(m.st.sks, skList) IN
         IF m.st.sks = nextSKs THEN m
         ELSE [m EXCEPT !.events = Append(@, "SigningKeysChanged"),
                        !.st = MarkSigningKeysUpdated(@, nextSKs)]

\* A membership stage that notifies on every pass.
Acc_ensureSigningKeysUpdated_AlwaysEmit(m, f) ==
    IF f = "listSK"
    THEN Return(m, TRUE)
    ELSE [m EXCEPT !.events = Append(@, "SigningKeysChanged"),
                   !.st = MarkSigningKeysUpdated(@, NextSigningKeys(m.st.sks, skList))]

\* AccountReconciler.ensureSigningKeysUpdated
Acc_ensureSigningKeysUpdated(m, f) ==
    IF f = "listSK"
    THEN Return(m, TRUE)
    ELSE LET nextSKs == NextSigningKeys(m.st.sks, skList) IN
         [m EXCEPT !.events = IF m.st.sks # nextSKs
                              THEN Append(@, "SigningKeysChanged") ELSE @,
                   !.st = MarkSigningKeysUpdated(@, nextSKs)]

\* AccountReconciler.loadIssuerSeed
Acc_loadIssuerSeed(m, f) ==
    LET i == m.issuer IN
    IF ~i.hasKP
    THEN Return([m EXCEPT !.st = Mark(@, "IssuerResolved", "False", "UnknownError")], FALSE)
    ELSE IF f = "getIssuerSeed"
    THEN Return([m EXCEPT !.st = Mark(@, "IssuerResolved", "Unknown", "IssuerSeedError")], TRUE)
    ELSE IF ~i.seed.exists
    THEN Return([m EXCEPT !.st = Mark(@, "IssuerResolved", "Unknown", "IssuerSeedError")], FALSE)
    ELSE IF ~i.seed.has \/ ~SeedDecodes(i.seed.seed) \/ i.seed.seed.p # PrefixOf("Operator")
    THEN Return([m EXCEPT !.st = Mark(@, "IssuerResolved", "False", "MalformedSeedSecret")], FALSE)
    ELSE IF PubOf(i.seed.seed) # i.pk
    THEN Return([m EXCEPT !.st = Mark(@, "IssuerResolved", "False", "PublicKeyMismatch")], FALSE)
    ELSE [m EXCEPT !.st = Mark(@, "IssuerResolved", "True", ""),
                   !.issuerSeed = i.seed.seed]

\* ------------------------------------------------------ Account: token stage
\* AccountReconciler.createJWTSecret
Acc_createJWTSecret(m, next, f) ==
    IF f = "createJWT"
    THEN Return([m EXCEPT !.st = Mark(@, "JWTSecretReady", "False", "UnknownError")], TRUE)
    ELSE [m EXCEPT !.jwt = JWTSecretOf(next),
                   !.writes = Append(@, "createJWT"),
                   !.events = Append(@, "JWTSecretCreated"),
                   !.token = next]

\* A token check that compares the issuance time too.
Acc_ensureJWTSecretUpToDate_ExactCompare(m, want, next, f) ==
    IF Decodes(m.jwt.jwt) /\ m.jwt.jwt.claims = want
    THEN [m EXCEPT !.st = Mark(@, "JWTSecretReady", "True", ""),
                   !.token = m.jwt.jwt]
    ELSE [m EXCEPT !.jwt = JWTSecretOf(next),
                   !.writes = Append(@, "updateJWT"),
                   !.events = Append(@, "SeedSecretUpdated"),
                   !.st = Mark(@, "JWTSecretReady", "True", ""),
                   !.token = next]

\* A token check that, like createJWTSecret, leaves JWT-ready unmarked when
\* the stored token is up to date.
Acc_ensureJWTSecretUpToDate_NoMark(m, want, next, f) ==
    IF Decodes(m.jwt.jwt) /\ ClaimsEqual(m.jwt.jwt.claims, want)
    THEN [m EXCEPT !.token = m.jwt.jwt]
    ELSE [m EXCEPT !.jwt = JWTSecretOf(next),
                   !.writes = Append(@, "updateJWT"),
                   !.st = Mark(@, "JWTSecretReady", "True", ""),
                   !.token = next]

\* A token check that accepts whatever token the secret stores.
Acc_ensureJWTSecretUpToDate_KeepStored(m, want, next, f) ==
    IF ~m.jwt.has
    THEN Return([m EXCEPT !.st = Mark(@, "JWTSecretReady", "False", "InvalidJWTSecret")], FALSE)
    ELSE [m EXCEPT !.st = Mark(@, "JWTSecretReady", "True", ""),
                   !.token = m.jwt.jwt]

\* AccountReconciler.ensureJWTSecretUpToDate
Acc_ensureJWTSecretUpToDate(m, want, next, f) ==
    IF ~m.jwt.has
    THEN Return([m EXCEPT !.st = Mark(@, "JWTSecretReady", "False", "InvalidJWTSecret")], FALSE)
    ELSE IF Decodes(m.jwt.jwt) /\ ClaimsEqual(m.jwt.jwt.claims, want)
    THEN [m EXCEPT !.st = Mark(@, "JWTSecretReady", "True", ""),
                   !.token = m.jwt.jwt]
    ELSE IF f = "updateJWT"
    THEN Return([m EXCEPT !.st = Mark(@, "SeedSecretReady", "Unknown", "UnknownError")], TRUE)
    ELSE [m EXCEPT !.jwt = JWTSecretOf(next),
                   !.writes = Append(@, "updateJWT"),
                   !.events = Append(@, "SeedSecretUpdated"),
                   !.st = Mark(@, "JWTSecretReady", "True", ""),
                   !.token = next]

\* AccountReconciler.reconcileJWTSecret
Acc_reconcileJWTSecret(m, f, t) ==
    LET want == CanonicalClaims(m.st, obj.spec, PubOf(m.issuerSeed), t) IN
    IF f = "claims"
    THEN Return([m EXCEPT !.st = Mark(@, "JWTSecretReady", "False", "UnknownError")], TRUE)
    ELSE IF f = "getJWT"
    THEN Return([m EXCEPT !.st = Mark(@, "JWTSecretReady", "Unknown", "UnknownError")], TRUE)
    ELSE IF ~m.jwt.exists
    THEN Acc_createJWTSecret([m EXCEPT !.want = want], Sign(want), f)
    ELSE Acc_ensureJWTSecretUpToDate([m EXCEPT !.want = want], want, Sign(want), f)

\* ------------------------------------------------------ Account: publication
PushFailed(m, r) == Return([m EXCEPT !.st = Mark(@, "JWTPushed", "False", r)], TRUE)

\* A push that marks the token pushed before it connects, and leaves the mark
\* when the connection or the push fails.
Acc_ensureJWTPushed_MarkFirst(m, f) ==
    IF f = "sysLoad" \/ m.owner.sys # "ok"
    THEN PushFailed(Called(m, "Load"), "UnknownError")
    ELSE IF f = "natsOpts" \/ m.owner.tls # "ok"
    THEN PushFailed(Called(m, "Load"), "UnknownError")
    ELSE IF f = "connect"
    THEN Return([Called(Called(m, "Load"), "Connect") EXCEPT
                    !.st = Mark(@, "JWTPushed", "True", "")], TRUE)
    ELSE IF f = "push"
    THEN Return([Called(Called(Called(m, "Load"), "Connect"), "Push") EXCEPT
                    !.st = Mark(@, "JWTPushed", "True", "")], TRUE)
    ELSE [m EXCEPT !.calls = @ \o <<"Load", "Connect", "Push">>,
                   !.rem = @ \cup {m.token.claims.sub},
                   !.st = Mark(@, "JWTPushed", "True", "")]

\* AccountReconciler.ensureJWTPushed
Acc_ensureJWTPushed(m, f) ==
    IF f = "sysLoad" \/ m.owner.sys # "ok"
    THEN PushFailed(Called(m, "Load"), "UnknownError")
    ELSE IF f = "natsOpts" \/ m.owner.tls # "ok"
    THEN PushFailed(Called(m, "Load"), "UnknownError")
    ELSE IF f = "connect"
    THEN PushFailed(Called(Called(m, "Load"), "Connect"), "UnknownError")
    ELSE IF f = "push"
    THEN PushFailed(Called(Called(Called(m, "Load"), "Connect"), "Push"), "JWTPushError")
    ELSE [m EXCEPT !.calls = @ \o <<"Load", "Connect", "Push">>,
                   !.rem = @ \cup {m.token.claims.sub},
                   !.st = Mark(@, "JWTPushed", "True", "")]

\* A publication stage that pushes the system account's token too.
Acc_publish_AlwaysPush(m, f) ==
    IF ~m.owner.exists
    THEN Return(At(m, "panic"), TRUE)
    ELSE Acc_ensureJWTPushed(m, f)

\* AccountReconciler.Reconcile, the publication stage. With no operator (see
\* resolveOperator) the system-account test dereferences nil: the pass ends
\* there with an error and the deferred status write still runs.

Acc_publish(m, f) ==
    IF ~m.owner.exists
    THEN Return(At(m, "panic"), TRUE)
    ELSE IF ~IsSystemAccount(m.owner)
    THEN Acc_ensureJWTPushed(m, f)
    ELSE [m EXCEPT !.st = Mark(@, "JWTPushed", "True", "")]

\* ----------------------------------------------------- Account: finalization
Skip(m, why) == [m EXCEPT !.fz = why]
FinFail(m) == [m EXCEPT !.fz = "failed"]

\* A finalization that fails when the operator or its system account is
\* not found.
finalizeRemote_AbsentFails(m, f) ==
    IF f = "getOperator" \/ ~(m.st.ownerRef = ParentName /\ parent.exists)
    THEN FinFail(Called(m, "GetOperator"))
    ELSE IF ~parent.hasKP THEN FinFail(Called(m, "GetOperator"))
    ELSE IF f = "getOperatorSeed" \/ ~parent.seed.exists \/ ~parent.seed.has
            \/ ~SeedDecodes(parent.seed.seed)
    THEN FinFail(Called(m, "GetOperator"))
    ELSE IF f = "sysLoad" \/ parent.sys # "ok"
    THEN FinFail(Called(Called(m, "GetOperator"), "Load"))
    ELSE IF f = "natsOpts" \/ parent.tls # "ok"
    THEN FinFail([Called(Called(m, "GetOperator"), "Load") EXCEPT
                     !.st = Mark(@, "JWTPushed", "False", "UnknownError")])
    ELSE IF f = "connect"
    THEN FinFail([m EXCEPT !.calls = @ \o <<"GetOperator", "Load", "Connect">>])
    ELSE IF f = "delete"
    THEN FinFail([m EXCEPT !.calls = @ \o <<"GetOperator", "Load", "Connect", "Delete">>])
    ELSE [m EXCEPT !.calls = @ \o <<"GetOperator", "Load", "Connect", "Delete">>,
                   !.rem = @ \ {m.st.keyPair.pk},
                   !.fz = "deleted"]

\* AccountReconciler.finalizeAccount past its two condition gates: the
\* operator, its seed, the system account, the connection, the delete.
finalizeRemote(m, f) ==
    IF f = "getOperator" THEN FinFail(Called(m, "GetOperator"))
    ELSE IF ~(m.st.ownerRef = ParentName /\ parent.exists)
    THEN Skip(Called(m, "GetOperator"), "absentOp")
    ELSE IF ~parent.hasKP THEN FinFail(Called(m, "GetOperator"))
    ELSE IF f = "getOperatorSeed" \/ ~parent.seed.exists \/ ~parent.seed.has
            \/ ~SeedDecodes(parent.seed.seed)
    THEN FinFail(Called(m, "GetOperator"))
    ELSE IF f = "sysLoad"
    THEN FinFail(Called(Called(m, "GetOperator"), "Load"))
    ELSE IF parent.sys # "ok"
    THEN Skip(Called(Called(m, "GetOperator"), "Load"), "absentSys")
    ELSE IF f = "natsOpts" \/ parent.tls # "ok"
    THEN FinFail([Called(Called(m, "GetOperator"), "Load") EXCEPT
                     !.st = Mark(@, "JWTPushed", "False", "UnknownError")])
    ELSE IF f = "connect"
    THEN FinFail([m EXCEPT !.calls = @ \o <<"GetOperator", "Load", "Connect">>])
    ELSE IF f = "delete"
    THEN FinFail([m EXCEPT !.calls = @ \o <<"GetOperator", "Load", "Connect", "Delete">>])
    ELSE [m EXCEPT !.calls = @ \o <<"GetOperator", "Load", "Connect", "Delete">>,
                   !.rem = @ \ {m.st.keyPair.pk},
                   !.fz = "deleted"]

\* A finalization that reports the token deleted without calling Delete.
finalizeAccount_NoDelete(m, f) ==
    IF ~IsTrue(m.st, "JWTSecretReady") THEN Skip(m, "skipJWT")
    ELSE IF ~IsTrue(m.st, "JWTPushed") THEN Skip(m, "skipPush")
    ELSE [m EXCEPT !.calls = @ \o <<"GetOperator", "Load", "Connect">>,
                   !.fz = "deleted"]

\* A finalization without the two condition gates.
finalizeAccount_NoGate(m, f) == finalizeRemote(m, f)

\* AccountReconciler.finalizeAccount: fz is its outcome, "failed" an error.
finalizeAccount(m, f) ==
    IF ~IsTrue(m.st, "JWTSecretReady") THEN Skip(m, "skipJWT")
    ELSE IF ~IsTrue(m.st, "JWTPushed") THEN Skip(m, "skipPush")
    ELSE finalizeRemote(m, f)

\* -------------------------------------------------------- Account: Reconcile
\* A finalizer branch that goes on with the other stages after it removed
\* the finalizer.
Acc_finalizerStage_GoOn(m, f) ==
    IF ~obj.deleting
    THEN IF m.fin THEN m
         ELSE IF f = "finalizerWrite" THEN Return(Called(m, "AddFinalizer"), TRUE)
         ELSE [Called(m, "AddFinalizer") EXCEPT !.fin = TRUE]
    ELSE IF ~m.fin THEN Return(m, FALSE)
    ELSE LET z == finalizeAccount(m, f) IN
         IF z.fz = "failed" THEN Return(z, TRUE)
         ELSE IF f = "finalizerWrite" THEN Return(Called(z, "RemoveFinalizer"), TRUE)
         ELSE [Called(z, "RemoveFinalizer") EXCEPT !.fin = FALSE]

\* A finalizer branch that goes on when the finalizer could not be written.
Acc_finalizerStage_IgnoreWriteError(m, f) ==
    IF ~obj.deleting
    THEN IF m.fin THEN m
         ELSE IF f = "finalizerWrite" THEN Called(m, "AddFinalizer")
         ELSE [Called(m, "AddFinalizer") EXCEPT !.fin = TRUE]
    ELSE IF ~m.fin THEN Return(m, FALSE)
    ELSE LET z == finalizeAccount(m, f) IN
         IF z.fz = "failed" THEN Return(z, TRUE)
         ELSE IF f = "finalizerWrite" THEN Return(Called(z, "RemoveFinalizer"), TRUE)
         ELSE Return([Called(z, "RemoveFinalizer") EXCEPT
                         !.fin = FALSE, !.gone = TRUE], FALSE)

\* A finalizer branch that removes the finalizer whatever finalization says.
Acc_finalizerStage_RemoveAnyway(m, f) ==
    IF ~obj.deleting
    THEN IF m.fin THEN m
         ELSE IF f = "finalizerWrite" THEN Return(Called(m, "AddFinalizer"), TRUE)
         ELSE [Called(m, "AddFinalizer") EXCEPT !.fin = TRUE]
    ELSE IF ~m.fin THEN Return(m, FALSE)
    ELSE LET z == finalizeAccount(m, f) IN
         IF f = "finalizerWrite" THEN Return(Called(z, "RemoveFinalizer"), TRUE)
         ELSE Return([Called(z, "RemoveFinalizer") EXCEPT
                         !.fin = FALSE, !.gone = TRUE], z.fz = "failed")

\* AccountReconciler.Reconcile, the finalizer branch
Acc_finalizerStage(m, f) ==
    IF ~obj.deleting
    THEN IF m.fin THEN m
         ELSE IF f = "finalizerWrite" THEN Return(Called(m, "AddFinalizer"), TRUE)
         ELSE [Called(m, "AddFinalizer") EXCEPT !.fin = TRUE]
    ELSE IF ~m.fin THEN Return(m, FALSE)
    ELSE LET z == finalizeAccount(m, f) IN
         IF z.fz = "failed" THEN Return(z, TRUE)
         ELSE IF f = "finalizerWrite" THEN Return(Called(z, "RemoveFinalizer"), TRUE)
         ELSE Return([Called(z, "RemoveFinalizer") EXCEPT
                         !.fin = FALSE, !.gone = TRUE], FALSE)

\* AccountReconciler.Reconcile: the pass up to its return, under fault f, with
\* n the key a generator draws and t the time a token is issued at.
Acc_Reconcile(f, n, t) ==
    LET m1 == Acc_finalizerStage(At(Pass0, "finalizer"), f)
        m2 == Then(m1, LAMBDA m : Acc_reconcileSeedSecret(At(m, "seed"), f, n))
        m3 == Then(m2, LAMBDA m : Acc_issuerStage(At(m, "issuer"), f))
        m4 == Then(m3, LAMBDA m : Acc_resolveOperator(At(m, "owner"), f))
        m5 == Then(m4, LAMBDA m : Acc_ensureSigningKeysUpdated(At(m, "keys"), f))
        m6 == Then(m5, LAMBDA m : Acc_loadIssuerSeed(At(m, "issuerSeed"), f))
        m7 == Then(m6, LAMBDA m : Acc_reconcileJWTSecret(At(m, "token"), f, t))
        m8 == Then(m7, LAMBDA m : Acc_publish(At(m, "publish"), f))
    IN  IF m8.stop THEN m8 ELSE Return(At(m8, "done"), FALSE)

\* ------------------------------------------------------------ shared stages
\* BaseReconciler.ensureSeedSecretUpToDate: the key pair of an existing seed
\* secret, after repairing the secret's other fields.
Base_ensureSeedSecretUpToDate(secret, f) ==
    IF ~secret.has \/ ~SeedDecodes(secret.seed)
    THEN Res(BadSeed, TRUE, ConditionFailed("InvalidSeedSecret"))
    ELSE IF secret.drift /\ f = "updateSeed"
    THEN Res(secret.seed, FALSE, ConditionFailed("UnknownError"))
    ELSE Res(secret.seed, TRUE, NoCErr)

\* A load of the issuer's seed that does not compare its public key with
\* the issuer's status.
Base_loadIssuerSeed_NoKeyCheck(i, wantPrefix, f) ==
    IF ~i.hasKP
    THEN Res(BadSeed, TRUE, ConditionFailed("UnknownError"))
    ELSE IF f = "getIssuerSeed"
    THEN Res(BadSeed, FALSE, ConditionUnknown("IssuerSeedError"))
    ELSE IF ~i.seed.exists
    THEN Res(BadSeed, TRUE, ConditionUnknown("IssuerSeedError"))
    ELSE IF ~i.seed.has \/ ~SeedDecodes(i.seed.seed) \/ i.seed.seed.p # wantPrefix
    THEN Res(BadSeed, TRUE, ConditionFailed("MalformedSeedSecret"))
    ELSE Res(i.seed.seed, TRUE, NoCErr)

\* BaseReconciler.loadIssuerSeed: the issuer's signing seed.
Base_loadIssuerSeed(i, wantPrefix, f) ==
    IF ~i.hasKP
    THEN Res(BadSeed, TRUE, ConditionFailed("UnknownError"))
    ELSE IF f = "getIssuerSeed"
    THEN Res(BadSeed, FALSE, ConditionUnknown("IssuerSeedError"))
    ELSE IF ~i.seed.exists
    THEN Res(BadSeed, TRUE, ConditionUnknown("IssuerSeedError"))
    ELSE IF ~i.seed.has \/ ~SeedDecodes(i.seed.seed) \/ i.seed.seed.p # wantPrefix
    THEN Res(BadSeed, TRUE, ConditionFailed("MalformedSeedSecret"))
    ELSE IF PubOf(i.seed.seed) # i.pk
    THEN Res(BadSeed, FALSE, ConditionFailed("PublicKeyMismatch"))
    ELSE Res(i.seed.seed, TRUE, NoCErr)

\* ---------------------------------------------------------- User: seed stage
\* UserReconciler.createSeedSecret
Usr_createSeedSecret(m, f, n) ==
    IF f \in {"keygen", "createSeed"}
    THEN Return([m EXCEPT !.st = Mark(@, "SeedSecretReady", "False", "UnknownError")], TRUE)
    ELSE [m EXCEPT !.seed = SeedSecretOf(NewSeed("U", n)),
                   !.writes = Append(@, "createSeed"),
                   !.events = Append(@, "SeedSecretCreated"),
                   !.st = MarkSeedSecretReady(@, PubOf(NewSeed("U", n)), SeedSecretName)]

\* UserReconciler.reconcileSeedSecret. Reconcile returns the error of this
\* stage whether or not the stage reports it as handled.
Usr_reconcileSeedSecret(m, f, n) ==
    IF f = "getSeed"
    THEN Return([m EXCEPT !.st = Mark(@, "SeedSecretReady", "Unknown", "UnknownError")], TRUE)
    ELSE IF ~m.seed.exists
    THEN Usr_createSeedSecret(m, f, n)
    ELSE LET r == Base_ensureSeedSecretUpToDate(m.seed, f) IN
         IF r.ce.k # "nil" \/ ~r.ok
         THEN Return([m EXCEPT !.st = MarkCondition(@, "SeedSecretReady", r.ce)], TRUE)
         ELSE [m EXCEPT !.seed.drift = FALSE,
                        !.writes = IF m.seed.drift THEN Append(@, "updateSeed") ELSE @,
                        !.events = IF m.seed.drift THEN Append(@, "SeedSecretUpdated") ELSE @,
                        !.st = MarkSeedSecretReady(@, PubOf(r.o), SeedSecretName)]

\* ------------------------------------------------- User: issuer and account
\* UserReconciler.Reconcile, the issuer stage
Usr_issuerStage(m, f) ==
    LET r == resolveIssuer(obj.issuerKind, f) IN
    IF r.ce.k # "nil" \/ ~r.ok
    THEN Return([m EXCEPT !.st = MarkCondition(@, "IssuerResolved", r.ce)], ~r.ok)
    ELSE [m EXCEPT !.issuer = r.o]

\* UserReconciler.resolveAccount. As in resolveOperator, a handled owner
\* error returns (nil, true, nil); Reconcile does not use the account and
\* goes on.
Usr_resolveAccount(m, f) ==
    IF m.issuer.kind = "Account"
    THEN [m EXCEPT !.owner = m.issuer, !.st = MarkOwnerResolved(@, ParentName)]
    ELSE IF m.issuer.kind = "SigningKey"
    THEN LET r == resolveSigningKeyOwner(m.issuer, f) IN
         IF r.ce.k # "nil" \/ ~r.ok
         THEN IF r.ok
              THEN [m EXCEPT !.st = MarkCondition(@, "OwnerResolved", r.ce)]
              ELSE Return([m EXCEPT !.st = MarkCondition(@, "OwnerResolved", r.ce)], TRUE)
         ELSE IF r.o.kind # "Account"
         THEN Return([m EXCEPT !.st = Mark(@, "OwnerResolved", "False", "InvalidSigningKeyOwner")], FALSE)
         ELSE [m EXCEPT !.owner = r.o, !.st = MarkOwnerResolved(@, ParentName)]
    ELSE Return([m EXCEPT !.st = Mark(@, "OwnerResolved", "False", "UnsupportedIssuer")], FALSE)

\* --------------------------------------------------------- User: token stage
\* UserReconciler.createJWTSecret
Usr_createJWTSecret(m, next, f) ==
    IF f = "createJWT"
    THEN Return([m EXCEPT !.st = Mark(@, "JWTSecretReady", "False", "UnknownError")], TRUE)
    ELSE [m EXCEPT !.jwt = JWTSecretOf(next),
                   !.writes = Append(@, "createJWT"),
                   !.events = Append(@, "JWTSecretCreated"),
                   !.token = next]

\* UserReconciler.ensureJWTSecretUpToDate
Usr_ensureJWTSecretUpToDate(m, want, next, f) ==
    IF ~m.jwt.has
    THEN Return([m EXCEPT !.st = Mark(@, "JWTSecretReady", "False", "InvalidJWTSecret")], FALSE)
    ELSE IF Decodes(m.jwt.jwt) /\ ClaimsEqual(m.jwt.jwt.claims, want)
    THEN [m EXCEPT !.st = Mark(@, "JWTSecretReady", "True", ""),
                   !.token = m.jwt.jwt]
    ELSE IF f = "updateJWT"
    THEN Return([m EXCEPT !.st = Mark(@, "SeedSecretReady", "Unknown", "UnknownError")], TRUE)
    ELSE [m EXCEPT !.jwt = JWTSecretOf(next),
                   !.writes = Append(@, "updateJWT"),
                   !.events = Append(@, "SeedSecretUpdated"),
                   !.st = Mark(@, "JWTSecretReady", "True", ""),
                   !.token = next]

\* UserReconciler.reconcileJWTSecret
Usr_reconcileJWTSecret(m, f, t) ==
    LET r == Base_loadIssuerSeed(m.issuer, PrefixOf("Account"), f) IN
    IF r.ce.k # "nil" \/ ~r.ok
    THEN Return([m EXCEPT !.st = MarkCondition(@, "IssuerResolved", r.ce)], ~r.ok)
    ELSE LET mi == [m EXCEPT !.st = Mark(@, "IssuerResolved", "True", ""),
                             !.issuerSeed = r.o]
             want == CanonicalClaims(mi.st, obj.spec, PubOf(r.o), t)
         IN  IF f = "claims"
             THEN Return([mi EXCEPT !.st = Mark(@, "JWTSecretReady", "False", "UnknownError")], FALSE)
             ELSE IF f = "getJWT"
             THEN Return([mi EXCEPT !.st = Mark(@, "JWTSecretReady", "Unknown", "UnknownError")], TRUE)
             ELSE IF ~mi.jwt.exists
             THEN Usr_createJWTSecret([mi EXCEPT !.want = want], Sign(want), f)
             ELSE Usr_ensureJWTSecretUpToDate([mi EXCEPT !.want = want], want, Sign(want), f)

\* --------------------------------------------------- User: credentials stage
CredsOf(token, seed) == [exists |-> TRUE, jwt |-> token, seed |-> seed]

\* UserReconciler.createCredentialsSecret
Usr_createCredentialsSecret(m, f) ==
    IF f = "createCreds"
    THEN Return([m EXCEPT !.st = Mark(@, "CredentialsSecretReady", "False", "UnknownError")], TRUE)
    ELSE [m EXCEPT !.creds = CredsOf(m.token, m.seed.seed),
                   !.writes = Append(@, "createCreds"),
                   !.events = Append(@, "CredentialsSecretCreated"),
                   !.st = Mark(@, "CredentialsSecretReady", "True", "")]

\* A credentials stage that takes any existing credentials secret as good.
Usr_ensureCredentialsSecretUpToDate_KeepStored(m, f) ==
    [m EXCEPT !.st = Mark(@, "CredentialsSecretReady", "True", "")]

\* UserReconciler.ensureCredentialsSecretUpToDate
Usr_ensureCredentialsSecretUpToDate(m, f) ==
    IF m.creds = CredsOf(m.token, m.seed.seed)
    THEN [m EXCEPT !.st = Mark(@, "CredentialsSecretReady", "True", "")]
    ELSE IF f = "updateCreds"
    THEN Return([m EXCEPT !.st = Mark(@, "CredentialsSecretReady", "False", "UnknownError")], TRUE)
    ELSE [m EXCEPT !.creds = CredsOf(m.token, m.seed.seed),
                   !.writes = Append(@, "updateCreds"),
                   !.events = Append(@, "CredentialsSecretUpdated"),
                   !.st = Mark(@, "CredentialsSecretReady", "True", "")]

\* UserReconciler.reconcileUserCredentialSecret
Usr_reconcileUserCredentialSecret(m, f) ==
    IF f = "getCreds"
    THEN Return([m EXCEPT !.st = Mark(@, "CredentialsSecretReady", "Unknown", "UnknownError")], TRUE)
    ELSE IF ~m.creds.exists
    THEN Usr_createCredentialsSecret(m, f)
    ELSE Usr_ensureCredentialsSecretUpToDate(m, f)

\* UserReconciler.Reconcile: the pass up to its return.
Usr_Reconcile(f, n, t) ==
    LET m1 == Usr_reconcileSeedSecret(At(Pass0, "seed"), f, n)
        m2 == Then(m1, LAMBDA m : Usr_issuerStage(At(m, "issuer"), f))
        m3 == Then(m2, LAMBDA m : Usr_resolveAccount(At(m, "owner"), f))
        m4 == Then(m3, LAMBDA m : Usr_reconcileJWTSecret(At(m, "token"), f, t))
        m5 == Then(m4, LAMBDA m : Usr_reconcileUserCredentialSecret(At(m, "creds"), f))
    IN  IF m5.stop THEN m5 ELSE Return(At(m5, "done"), FALSE)

\* ------------------------------------------- the previous Account reconciler
\* account_controller.go: the reconciler before issuers, finalizers and
\* condition errors. Its spec names a SigningKey; it wants at least one
\* SigningKey of its own; it creates seed and token together.

\* The fixed delay, in seconds, the previous Account reconciler asks for.
RequeueDelay == 30

\* Reconcile on a not-found error: the requeue delay is set and the error is
\* still the returned one.
Requeue(m) == Return([m EXCEPT !.requeue = RequeueDelay], TRUE)

\* AccountReconciler.ensureOperatorResolved (previous): the seed of the
\* SigningKey the spec names, once its owner is known to be an Operator.
Prev_ensureOperatorResolved(m, f) ==
    IF f = "getIssuer"
    THEN Return([m EXCEPT !.st = Mark(@, "OwnerResolved", "False", "SigningKeyGet")], TRUE)
    ELSE IF ~sk.exists
    THEN Requeue([m EXCEPT !.st = Mark(@, "OwnerResolved", "False", "SigningKeyGet")])
    ELSE IF ~sk.ownerResolved
    THEN Requeue(m)
    ELSE IF sk.ownerKind # "Operator"
    THEN Return([m EXCEPT !.st = Mark(@, "OwnerResolved", "False", "InvalidSigningKeyOwner")], TRUE)
    ELSE LET mo == [m EXCEPT !.st = MarkOwnerResolved(@, ParentName),
                             !.issuer = sk]
         IN  IF ~sk.hasKP THEN Return(At(mo, "panic"), TRUE)
             ELSE IF f = "getIssuerSeed" THEN Return(mo, TRUE)
             ELSE IF ~sk.seed.exists THEN Requeue(mo)
             ELSE [mo EXCEPT !.issuerSeed =
                                 IF sk.seed.has THEN sk.seed.seed ELSE BadSeed]

\* A membership stage that takes the keys the Account owns, ready or not.
Prev_ensureSigningKeysUpdated_NoReady(m, f) ==
    LET Qualifies(k) == k.mine
        sel == SelectSeq(skList, Qualifies)
        signingKeys == [i \in DOMAIN sel |-> Entry(sel[i])]
    IN  IF f = "listSK" THEN Return(m, TRUE)
        ELSE IF signingKeys = <<>> THEN Requeue(m)
        ELSE [m EXCEPT !.st = MarkSigningKeysUpdated(@, signingKeys)]

\* AccountReconciler.ensureSigningKeysUpdated (previous): the listed keys
\* that are ready and owned by the Account, in listing order; none is an
\* error and leaves the recorded membership as it was.
Prev_ensureSigningKeysUpdated(m, f) ==
    LET Qualifies(k) == k.ready /\ k.mine
        sel == SelectSeq(skList, Qualifies)
        signingKeys == [i \in DOMAIN sel |-> Entry(sel[i])]
    IN  IF f = "listSK" THEN Return(m, TRUE)
        ELSE IF skList = <<>>
        THEN Requeue([m EXCEPT !.st = Mark(@, "SigningKeysUpdated", "Unknown", "NoSigningKeys")])
        ELSE IF signingKeys = <<>>
        THEN Requeue([m EXCEPT !.st = Mark(@, "SigningKeysUpdated", "Unknown", "NoReadySigningKeys")])
        ELSE [m EXCEPT !.st = MarkSigningKeysUpdated(@, signingKeys)]

\* AccountReconciler.isSystemAccount (previous)
Prev_isSystemAccount(st, f) ==
    IF ~IsTrue(st, "OwnerResolved") THEN [sys |-> TRUE, err |-> FALSE]
    ELSE IF f = "getOperator" \/ ~(st.ownerRef = ParentName /\ parent.exists)
    THEN [sys |-> TRUE, err |-> TRUE]
    ELSE IF parent.sys # "ok" THEN [sys |-> TRUE, err |-> FALSE]
    ELSE [sys |-> parent.sysSelf, err |-> FALSE]

\* AccountReconciler.updateAccountJWTSigningKeys (previous): re-signs the
\* stored claims with the new signing keys when they differ as sets.
Prev_updateAccountJWTSigningKeys(m, pks, f, t) ==
    IF ~m.jwt.has \/ ~Decodes(m.jwt.jwt) THEN [m |-> m, err |-> TRUE]
    ELSE IF m.jwt.jwt.claims.sks = pks THEN [m |-> m, err |-> FALSE]
    ELSE IF ~SeedDecodes(m.issuerSeed) \/ f = "claims" THEN [m |-> m, err |-> TRUE]
    ELSE IF f = "updateJWT" THEN [m |-> m, err |-> TRUE]
    ELSE LET ajwt == Sign([m.jwt.jwt.claims EXCEPT !.sks = pks, !.iat = t,
                                                   !.iss = PubOf(m.issuerSeed)])
             mu == [m EXCEPT !.jwt = JWTSecretOf(ajwt),
                             !.writes = Append(@, "updateJWT"),
                             !.token = ajwt]
             isSys == Prev_isSystemAccount(m.st, f)
         IN  IF isSys.err \/ isSys.sys THEN [m |-> mu, err |-> FALSE]
             ELSE IF f = "push" THEN [m |-> Called(mu, "Push"), err |-> TRUE]
             ELSE [m |-> [Called(mu, "Push") EXCEPT !.rem = @ \cup {ajwt.claims.sub}],
                   err |-> FALSE]

\* AccountReconciler.ensureSeedJWTSecrets (previous). With either secret
\* missing it draws a new identity and writes both secrets: the JWT secret
\* first, then the seed secret, which is immutable, so that writing over an
\* existing one is refused.
Prev_ensureSeedJWTSecrets(m, f, n, t) ==
    LET seedNotFound == f # "getSeed" /\ ~m.seed.exists
        jwtNotFound == f # "getJWT" /\ ~m.jwt.exists
        pks == {m.st.sks[i].pk : i \in DOMAIN m.st.sks}
        seed == NewSeed("A", n)
        ajwt == Sign([sub |-> PubOf(seed), iss |-> PubOf(m.issuerSeed),
                      spec |-> obj.spec, sks |-> pks, iat |-> t])
        mj == [m EXCEPT !.jwt = JWTSecretOf(ajwt), !.token = ajwt,
                        !.writes = Append(@, IF jwtNotFound THEN "createJWT"
                                             ELSE "updateJWT")]
        ms == [mj EXCEPT !.seed = SeedSecretOf(seed),
                         !.writes = Append(@, "createSeed")]
        isSys == Prev_isSystemAccount(m.st, f)
        ready == [ms EXCEPT !.st =
                     MarkSeedSecretReady(
                         Mark(Mark(@, "JWTPushed", "True", ""),
                              "JWTSecretReady", "True", ""),
                         PubOf(seed), SeedSecretName)]
        u == Prev_updateAccountJWTSigningKeys(m, pks, f, t)
    IN  IF seedNotFound \/ jwtNotFound
        THEN IF ~SeedDecodes(m.issuerSeed) \/ f \in {"keygen", "claims"}
             THEN Return(m, TRUE)
             ELSE IF (jwtNotFound /\ f = "createJWT")
                     \/ (~jwtNotFound /\ (f = "updateJWT" \/ ~m.jwt.exists))
             THEN Return(m, TRUE)
             ELSE IF ~seedNotFound \/ f = "createSeed"
             THEN Return(mj, TRUE)
             ELSE IF isSys.err THEN Return(ms, TRUE)
             ELSE IF isSys.sys THEN ready
             ELSE IF f = "push"
             THEN Return([Called(ms, "Push") EXCEPT
                             !.st = Mark(@, "JWTPushed", "False", "JWTPushError")], FALSE)
             ELSE [Called(ready, "Push") EXCEPT !.rem = @ \cup {PubOf(seed)}]
        ELSE IF f = "getSeed"
        THEN Return([m EXCEPT !.st = Mark(@, "SeedSecretReady", "Unknown", "UnknownError")], TRUE)
        ELSE IF f = "getJWT"
        THEN Return([m EXCEPT !.st = Mark(Mark(@, "JWTSecretReady", "Unknown", "UnknownError"),
                                          "JWTPushed", "Unknown", "UnknownError")], TRUE)
        ELSE IF u.err
        THEN [u.m EXCEPT !.st = Mark(Mark(@, "JWTPushed", "Unknown", "UpdateFailed"),
                                     "JWTSecretReady", "Unknown", "UpdateFailed")]
        ELSE u.m

\* AccountReconciler.Reconcile (previous): the pass up to its return.
Prev_Reconcile(f, n, t) ==
    LET m1 == Prev_ensureOperatorResolved(At([Pass0 EXCEPT !.st = status], "owner"), f)
        m2 == Then(m1, LAMBDA m : Prev_ensureSigningKeysUpdated(At(m, "keys"), f))
        m3 == Then(m2, LAMBDA m : Prev_ensureSeedJWTSecrets(At(m, "secrets"), f, n, t))
    IN  IF m3.stop THEN m3 ELSE Return(At(m3, "done"), FALSE)

\* A comparison that finds every status changed.
StatusDiffers_Always(orig, st) == TRUE

\* The deferred status write: issued when the status differs from the
\* snapshot taken at load.
StatusDiffers(orig, st) == orig # st

\* A deferred function that skips the status write of a pass that ends in
\* an error.
StatusWriteIssued_SkipOnError(orig, m) == StatusDiffers(orig, m.st) /\ ~m.err

\* The deferred function's decision to write the status: the current build
\* writes a changed status whatever the pass returns, the previous build
\* only when the pass returns no error.
StatusWriteIssued(orig, m) ==
    StatusDiffers(orig, m.st) /\ (build = "current" \/ ~m.err)

\* What the store held when a pass began.
NoPre == [keyPair |-> NoKeyPair, sks |-> <<>>, seed |-> NoSecret, jwt |-> NoJWT,
          creds |-> NoCreds, finalizer |-> FALSE, jwtReady |-> FALSE,
          jwtPushed |-> FALSE, pushed |-> FALSE, converged |-> FALSE]
Idle ==
    [op |-> "none", f |-> "none", err |-> FALSE, stage |-> "", calls |-> <<>>,
     writes |-> <<>>, events |-> <<>>, st |-> EmptyStatus, want |-> NoClaims,
     token |-> NoToken, fz |-> "none", wrote |-> FALSE, wfail |-> FALSE,
     sw |-> "none", requeue |-> 0,
     deleting |-> FALSE, removed |-> FALSE, sysSelf |-> FALSE, pre |-> NoPre]

\* The deferred function of Reconcile, and what the pass leaves behind: m is
\* the pass at its return, m0 the same pass without the injected fault. The
\* status write is issued when the status differs from the snapshot (in the
\* previous build only when the pass returns no error); it may succeed, hit
\* a conflict or fail otherwise. The current build appends its error to the
\* returned one; the previous build returns it and, on a conflict, also sets
\* the requeue delay.
Commit(m, m0, f) ==
    LET wr == StatusWriteIssued(status, m) IN
    \E sw \in IF wr /\ ~m.gone /\ budget > 0
              THEN {"ok", "conflict", "error"} ELSE {"ok"} :
    LET wfail == wr /\ (sw # "ok" \/ m.gone)
    IN  /\ obj' = [obj EXCEPT !.finalizer = m.fin, !.exists = ~m.gone]
        /\ status' = IF wr /\ ~wfail THEN m.st ELSE status
        /\ seedSecret' = IF m.gone THEN NoSecret ELSE m.seed
        /\ jwtSecret' = IF m.gone THEN NoJWT ELSE m.jwt
        /\ credsSecret' = IF m.gone THEN NoCreds ELSE m.creds
        /\ remote' = m.rem
        /\ deleteCalls' = deleteCalls + Count(m.calls, "Delete")
        /\ budget' = IF m # m0 \/ sw # "ok" THEN budget - 1 ELSE budget
        /\ last' = [op |-> IF build = "current" THEN "Reconcile"
                            ELSE "ReconcilePrevious",
                    f |-> IF m = m0 THEN "none" ELSE f,
                    err |-> m.err \/ wfail, stage |-> m.stage,
                    calls |-> m.calls, writes |-> m.writes,
                    events |-> m.events, st |-> m.st, want |-> m.want,
                    token |-> m.token,
                    fz |-> m.fz, wrote |-> wr, wfail |-> wfail,
                    sw |-> IF ~wr THEN "none"
                           ELSE IF m.gone THEN "notfound" ELSE sw,
                    requeue |-> IF build = "previous" /\ wfail /\ sw = "conflict"
                                THEN RequeueDelay ELSE m.requeue,
                    deleting |-> obj.deleting, removed |-> m.gone,
                    sysSelf |-> m.owner.exists /\ IsSystemAccount(m.owner),
                    pre |-> [keyPair |-> status.keyPair, sks |-> status.sks,
                             seed |-> seedSecret,
                             jwt |-> jwtSecret, creds |-> credsSecret,
                             finalizer |-> obj.finalizer,
                             jwtReady |-> IsTrue(status, "JWTSecretReady"),
                             jwtPushed |-> IsTrue(status, "JWTPushed"),
                             pushed |-> remote # {},
                             converged |-> /\ last.op = "Reconcile"
                                           /\ last.stage = "done"
                                           /\ ~last.err
                                           /\ IsReady(kind, status)]]
        /\ UNCHANGED <<kind, build, parent, sk, skList>>

\* nkeys.CreateAccount / CreateUser: a generator does not return a key it
\* returned before; the pass draws the key after the one the status records.
FreshKey == IF status.keyPair.set THEN (status.keyPair.pk.id % MaxKey) + 1 ELSE 1

\* The time a pass issues a token at: later than the stored token's issuance
\* time, until the clock reaches MaxClock.
IssueTime ==
    IF jwtSecret.exists /\ Decodes(jwtSecret.jwt)
    THEN IF jwtSecret.jwt.claims.iat < MaxClock
         THEN jwtSecret.jwt.claims.iat + 1 ELSE MaxClock
    ELSE 0

AccountFaults ==
    {"none", "finalizerWrite", "getSeed", "keygen", "createSeed", "updateSeed",
     "getIssuer", "getOwner", "listSK", "getIssuerSeed", "claims", "getJWT",
     "createJWT", "updateJWT", "sysLoad", "natsOpts", "connect", "push",
     "getOperator", "getOperatorSeed", "delete"}

AccountReconcile ==
    /\ kind = "Account" /\ build = "current"
    /\ obj.exists
    /\ \E f \in IF budget > 0 THEN AccountFaults ELSE {"none"} :
       \E m \in {Acc_Reconcile(f, FreshKey, IssueTime)},
          m0 \in {Acc_Reconcile("none", FreshKey, IssueTime)} :
          Commit(m, m0, f)
    /\ UNCHANGED <<watch, api>>

UserFaults ==
    {"none", "getSeed", "keygen", "createSeed", "updateSeed", "getIssuer",
     "getOwner", "getIssuerSeed", "claims", "getJWT", "createJWT", "updateJWT",
     "getCreds", "createCreds", "updateCreds"}

PrevAccountFaults ==
    {"none", "getIssuer", "getIssuerSeed", "listSK", "getSeed", "getJWT",
     "keygen", "claims", "createJWT", "updateJWT", "createSeed", "getOperator",
     "push"}

PrevAccountReconcile ==
    /\ kind = "Account" /\ build = "previous"
    /\ obj.exists
    /\ \E f \in IF budget > 0 THEN PrevAccountFaults ELSE {"none"} :
       \E m \in {Prev_Reconcile(f, FreshKey, IssueTime)},
          m0 \in {Prev_Reconcile("none", FreshKey, IssueTime)} :
          Commit(m, m0, f)
    /\ UNCHANGED <<watch, api>>

UserReconcile ==
    /\ kind = "User" /\ build = "current"
    /\ obj.exists
    /\ \E f \in IF budget > 0 THEN UserFaults ELSE {"none"} :
       \E m \in {Usr_Reconcile(f, FreshKey, IssueTime)},
          m0 \in {Usr_Reconcile("none", FreshKey, IssueTime)} :
          Commit(m, m0, f)
    /\ UNCHANGED <<watch, api>>

\* Reconcile for a key whose resource is gone: Get reports not found.
ReconcileNotFound ==
    /\ ~obj.exists
    /\ last.op = "none"
    /\ last' = [Idle EXCEPT !.op = "Reconcile", !.stage = "notfound"]
    /\ UNCHANGED <<kind, build, watch, api, obj, status, seedSecret, jwtSecret, credsSecret,
                   parent, sk, skList, remote, deleteCalls, budget>>

\* -------------------------------------------------------------- environment
Env == /\ budget > 0
       /\ budget' = budget - 1
       /\ last' = Idle

\* A user edits the claim fields of the spec.
EditSpec ==
    /\ obj.exists /\ ~obj.deleting /\ obj.spec < MaxSpec
    /\ obj' = [obj EXCEPT !.spec = @ + 1]
    /\ last' = Idle
    /\ UNCHANGED <<kind, build, watch, api, status, seedSecret, jwtSecret, credsSecret, parent,
                   sk, skList, remote, deleteCalls, budget>>

\* A user deletes the resource: the store sets the deletion marker, or, with
\* no finalizer on it, removes the resource and collects its secrets.
RequestDelete ==
    /\ obj.exists /\ ~obj.deleting
    /\ last' = Idle
    /\ IF obj.finalizer
       THEN /\ obj' = [obj EXCEPT !.deleting = TRUE]
            /\ UNCHANGED <<seedSecret, jwtSecret, credsSecret>>
       ELSE /\ obj' = [obj EXCEPT !.deleting = TRUE, !.exists = FALSE]
            /\ seedSecret' = NoSecret /\ jwtSecret' = NoJWT
            /\ credsSecret' = NoCreds
    /\ UNCHANGED <<kind, build, watch, api, status, parent, sk, skList, remote, deleteCalls, budget>>

\* Someone changes or deletes the seed secret.
TamperSeed ==
    /\ obj.exists /\ seedSecret.exists /\ Env
    /\ \/ seedSecret' = NoSecret
       \/ \E n \in 1..MaxKey : /\ NewSeed(PrefixOf(kind), n) # seedSecret.seed
                               /\ seedSecret' = [seedSecret EXCEPT !.has = TRUE,
                                                    !.seed = NewSeed(PrefixOf(kind), n)]
       \/ seedSecret' = [seedSecret EXCEPT !.seed = BadSeed]
       \/ seedSecret' = [seedSecret EXCEPT !.has = FALSE, !.seed = BadSeed]
       \/ seedSecret' = [seedSecret EXCEPT !.drift = TRUE]
    /\ seedSecret' # seedSecret
    /\ UNCHANGED <<kind, build, watch, api, obj, status, jwtSecret, credsSecret, parent, sk,
                   skList, remote, deleteCalls>>

\* Someone changes or deletes the JWT secret.
TamperJWT ==
    /\ obj.exists /\ jwtSecret.exists /\ Env
    /\ \/ jwtSecret' = NoJWT
       \/ jwtSecret' = [jwtSecret EXCEPT !.jwt = NoToken]
       \/ jwtSecret' = [jwtSecret EXCEPT !.has = FALSE, !.jwt = NoToken]
    /\ jwtSecret' # jwtSecret
    /\ UNCHANGED <<kind, build, watch, api, obj, status, seedSecret, credsSecret, parent, sk,
                   skList, remote, deleteCalls>>

\* Someone deletes the credentials secret of a User.
TamperCreds ==
    /\ obj.exists /\ credsSecret.exists /\ Env
    /\ credsSecret' = NoCreds
    /\ UNCHANGED <<kind, build, watch, api, obj, status, seedSecret, jwtSecret, parent, sk,
                   skList, remote, deleteCalls>>

\* The issuing Operator or Account changes under the resource.
ParentChange ==
    /\ Env
    /\ \/ parent' = [parent EXCEPT !.seedReady = ~@]
       \/ parent' = [parent EXCEPT !.exists = FALSE]
       \/ parent' = [parent EXCEPT !.seed = SeedSecretOf(NewSeed(PrefixOf(parent.kind), MaxKey))]
       \/ parent' = [parent EXCEPT !.seed = SeedSecretOf(NewSeed("U", 1))]
       \/ parent' = [parent EXCEPT !.seed = NoSecret]
       \/ parent' = [parent EXCEPT !.seed = SeedSecretOf(BadSeed)]
       \/ parent' = [parent EXCEPT !.seed = [SeedSecretOf(BadSeed) EXCEPT !.has = FALSE]]
       \/ parent' = [parent EXCEPT !.hasKP = FALSE]
       \/ kind = "Account" /\ parent' = [parent EXCEPT !.sys = "notfound"]
    /\ parent' # parent
    /\ UNCHANGED <<kind, build, watch, api, obj, status, seedSecret, jwtSecret, credsSecret, sk,
                   skList, remote, deleteCalls>>

\* The SigningKey named as issuer changes.
IssuerKeyChange ==
    /\ obj.issuerKind = "SigningKey" /\ Env
    /\ \/ sk' = [sk EXCEPT !.ownerResolved = ~@]
       \/ sk' = [sk EXCEPT !.ownerKind = "User"]
       \/ sk' = [sk EXCEPT !.ownerKind = "User", !.ownerGone = TRUE]
       \/ sk' = [sk EXCEPT !.ownerKind = "Bogus"]
       \/ sk' = [sk EXCEPT !.seedReady = ~@]
    /\ sk' # sk
    /\ UNCHANGED <<kind, build, watch, api, obj, status, seedSecret, jwtSecret, credsSecret,
                   parent, skList, remote, deleteCalls>>

\* The SigningKeys listed for an Account change.
Keys == {[name |-> "k1", pk |-> PubOf(NewSeed("A", MaxKey)), ready |-> r, mine |-> o]
            : r \in BOOLEAN, o \in BOOLEAN}
Key1 == [name |-> "k1", pk |-> PubOf(NewSeed("A", MaxKey)), ready |-> TRUE, mine |-> TRUE]
Key2 == [name |-> "k2", pk |-> PubOf(NewSeed("A", 1)), ready |-> TRUE, mine |-> TRUE]
\* The listings: none, either key, or both in either order.
Listings ==
    {<<>>, <<Key2>>} \cup {<<k>> : k \in Keys}
        \cup {<<k, Key2>> : k \in Keys} \cup {<<Key2, k>> : k \in Keys}
ListChange ==
    /\ kind = "Account" /\ Env
    /\ \E l \in Listings : l # skList /\ skList' = l
    /\ UNCHANGED <<kind, build, watch, api, obj, status, seedSecret, jwtSecret, credsSecret,
                   parent, sk, remote, deleteCalls>>

\* ------------------------------------------------------ the SigningKey watch
\* SetupWithManager: the function that maps a watched object to reconcile
\* requests. An apiVersion is its path segments; a reference is unset or
\* names an object by apiVersion, kind, namespace and name.
AccountsGroup == "accounts.nats.io"
AccountsVersion == "v1alpha1"
NoRef == [set |-> FALSE, apiVersion |-> <<>>, kind |-> "", namespace |-> "",
          name |-> ""]
Ref(av, k, ns, n) ==
    [set |-> TRUE, apiVersion |-> av, kind |-> k, namespace |-> ns, name |-> n]
\* schema.ParseGroupVersion, and what FromAPIVersionAndKind makes of an
\* apiVersion it cannot parse.
ParseGroupVersion(av) ==
    IF Len(av) = 1 THEN [group |-> "", version |-> av[1]]
    ELSE IF Len(av) = 2 THEN [group |-> av[1], version |-> av[2]]
    ELSE [group |-> "", version |-> ""]
\* TypedObjectReference.GetGroupVersionKind
GetGroupVersionKind(r) ==
    [group |-> ParseGroupVersion(r.apiVersion).group,
     version |-> ParseGroupVersion(r.apiVersion).version, kind |-> r.kind]
AccountGVK == [group |-> AccountsGroup, version |-> AccountsVersion, kind |-> "Account"]
Request(ns, n) == [namespace |-> ns, name |-> n]

\* A map function that looks at the kind alone.
SigningKeyRequests_KindOnly(o) ==
    IF o.kind # "SigningKey" THEN <<>>
    ELSE IF ~o.ownerRef.set THEN <<>>
    ELSE IF o.ownerRef.kind # "Account" THEN <<>>
    ELSE <<Request(o.ownerRef.namespace, o.ownerRef.name)>>

\* A map function that queues nothing: no watch on SigningKeys.
SigningKeyRequests_None(o) == <<>>

\* The map function given to handler.EnqueueRequestsFromMapFunc.
SigningKeyRequests(o) ==
    IF o.kind # "SigningKey" THEN <<>>
    ELSE IF ~o.ownerRef.set THEN <<>>
    ELSE IF AccountGVK # GetGroupVersionKind(o.ownerRef) THEN <<>>
    ELSE <<Request(o.ownerRef.namespace, o.ownerRef.name)>>

\* The objects a watch event may carry.
APIVersions ==
    {<<AccountsGroup, AccountsVersion>>, <<AccountsGroup, "v1beta1">>,
     <<AccountsVersion>>, <<"v1">>}
RefKinds == {"Account", "Operator", "User"}
Namespaces == {"ns", ""}
Names == {"A", "B"}
OwnerRefs ==
    {NoRef} \cup {Ref(av, k, ns, n) : av \in APIVersions, k \in RefKinds,
                                      ns \in Namespaces, n \in Names}
WatchedObjects ==
    {[kind |-> k, ownerRef |-> r] : k \in {"SigningKey", "Secret"}, r \in OwnerRefs}
NoEvent == [kind |-> "", ownerRef |-> NoRef]
\* ------------------------------------------------- listing the SigningKeys
\* Labels and match-labels are sets of <<key, value>> with distinct keys.
KeyOrder == <<"env", "team">>
LabelSets ==
    {{}, {<<"team", "a">>}, {<<"team", "b">>}, {<<"env", "x">>, <<"team", "a">>}}
\* spec.signingKeysSelector: nil, or a selector with match-labels; invalid
\* stands for a match-expression the conversion rejects.
NilSelector == [set |-> FALSE, matchLabels |-> {}, invalid |-> FALSE]
LabelSelector(ml, bad) == [set |-> TRUE, matchLabels |-> ml, invalid |-> bad]
LabelSelectors ==
    {NilSelector} \cup {LabelSelector(ml, FALSE) : ml \in LabelSets}
        \cup {LabelSelector({<<"team", "a">>}, TRUE)}
\* labels.Everything, labels.Nothing and a selector of requirements.
Everything == [nothing |-> FALSE, reqs |-> {}]
Nothing == [nothing |-> TRUE, reqs |-> {}]
\* metav1.LabelSelectorAsSelector
LabelSelectorAsSelector(ps) ==
    IF ~ps.set THEN [sel |-> Nothing, err |-> FALSE]
    ELSE IF ps.invalid THEN [sel |-> Nothing, err |-> TRUE]
    ELSE [sel |-> [nothing |-> FALSE, reqs |-> ps.matchLabels], err |-> FALSE]
\* labels.Selector.Empty
SelectorEmpty(sel) == ~sel.nothing /\ sel.reqs = {}
\* labels.Selector.String: the requirements in key order, joined; the empty
\* string for a selector without requirements.
SelectorString(sel) ==
    LET Present(k) == \E p \in sel.reqs : p[1] = k
        ks == SelectSeq(KeyOrder, Present)
    IN  [i \in DOMAIN ks |-> LET p == CHOOSE q \in sel.reqs : q[1] = ks[i]
                             IN  <<p[1], "=", p[2]>>]
\* labels.Parse, as the API server applies it to ListOptions.LabelSelector.
ParseSelector(str) ==
    [nothing |-> FALSE, reqs |-> {<<str[i][1], str[i][3]>> : i \in DOMAIN str}]
\* labels.Selector.Matches
SelectorMatches(sel, labels) == ~sel.nothing /\ sel.reqs \subseteq labels
\* A list that passes the selector on only when the Account sets none.
SigningKeysListOptions_IgnoreSelector(selector) ==
    IF selector.set /\ LabelSelectorAsSelector(selector).err
    THEN [err |-> TRUE, labelSelector |-> <<>>]
    ELSE [err |-> FALSE, labelSelector |-> <<>>]

\* AccountReconciler.ensureSigningKeysUpdated, up to the List call: the
\* list options, or the error of an invalid selector.
SigningKeysListOptions(selector) ==
    LET r == IF selector.set THEN LabelSelectorAsSelector(selector)
             ELSE [sel |-> Everything, err |-> FALSE]
    IN  IF r.err THEN [err |-> TRUE, labelSelector |-> <<>>]
        ELSE [err |-> FALSE,
              labelSelector |-> IF ~SelectorEmpty(r.sel)
                                THEN SelectorString(r.sel) ELSE <<>>]
\* SigningKeys(namespace).List: the stored keys of the namespace that the
\* parsed selector matches.
ListSigningKeys(ns, opts, store) ==
    {k \in store : /\ k.namespace = ns
                   /\ SelectorMatches(ParseSelector(opts.labelSelector), k.labels)}
\* The SigningKeys in the store: two in the Account's namespace or one of
\* them elsewhere, with any labels.
AccountNamespace == "ns"
StoredSigningKey(n, ns, l) == [name |-> n, namespace |-> ns, labels |-> l]
SigningKeyStores ==
    {{StoredSigningKey("k1", AccountNamespace, l1), StoredSigningKey("k2", ns, l2)}
        : l1 \in LabelSets, l2 \in LabelSets, ns \in {AccountNamespace, "other"}}
ListCall(sel, store) ==
    [op |-> "List", selector |-> sel, store |-> store, done |-> FALSE,
     err |-> FALSE, labelSelector |-> <<>>, items |-> {}]

\* -------------------------------------------------- fetching the issuer
\* A lookup that ignores the reference's namespace.
IssuerObjectKey_FallbackOnly(ref, fallbackNamespace) ==
    Request(fallbackNamespace, ref.name)

\* BaseReconciler.resolveIssuer, the key of its Get: the reference's
\* namespace when it names one, the fallback namespace otherwise.
IssuerObjectKey(ref, fallbackNamespace) ==
    Request(IF ref.namespace # "" THEN ref.namespace ELSE fallbackNamespace,
            ref.name)
\* The issuer references of a spec, the namespaces of the reconciled
\* resource, and the objects of the issuer's kind in the store.
IssuerRefs ==
    {Ref(<<AccountsGroup, AccountsVersion>>, "Operator", ns, n)
        : ns \in {"", "ns", "other"}, n \in Names}
ResourceNamespaces == {"ns", "other"}
ObjectStores == SUBSET {Request(ns, n) : ns \in ResourceNamespaces, n \in Names}
GetCall(ref, ns, store) ==
    [op |-> "Get", ref |-> ref, fallback |-> ns, store |-> store,
     done |-> FALSE, key |-> Request("", ""), found |-> FALSE]

\* No request to the store is under study.
NoCall == [op |-> "none"]
\* No watch event is in flight, no SigningKey is stored, no request is
\* queued and no worker runs.
Unwatched ==
    [ev |-> NoEvent, mapped |-> FALSE, reqs |-> <<>>, keys |-> <<>>,
     queue |-> {}, running |-> FALSE]

\* ------------------------------------------------------------ specification
Init ==
    /\ kind \in {"Account", "User"}
    /\ build \in {"current"} \cup (IF kind = "Account" THEN {"previous"} ELSE {})
    /\ \E ik \in IF build = "current" THEN IssuerKinds ELSE {"SigningKey"} :
          obj = [exists |-> TRUE, deleting |-> FALSE, finalizer |-> FALSE,
                 spec |-> 0, issuerKind |-> ik]
    /\ status = EmptyStatus
    /\ seedSecret = NoSecret /\ jwtSecret = NoJWT /\ credsSecret = NoCreds
    /\ \E s \in BOOLEAN :
          parent = [GoodObj(ParentKind(kind), PrefixOf(ParentKind(kind)), 1)
                       EXCEPT !.sysSelf = s /\ kind = "Account"]
    /\ sk = [GoodObj("SigningKey", PrefixOf(ParentKind(kind)), MaxKey)
                EXCEPT !.ownerResolved = TRUE, !.ownerKind = ParentKind(kind)]
    /\ skList \in {<<>>} \cup (IF kind = "Account" THEN {<<Key1, Key2>>} ELSE {})
    /\ remote = {}
    /\ deleteCalls = 0
    /\ budget = MaxEnv
    /\ last = Idle
    /\ watch = Unwatched
    /\ api = NoCall

Next ==
    \/ AccountReconcile
    \/ PrevAccountReconcile
    \/ UserReconcile
    \/ ReconcileNotFound
    \/ EditSpec
    \/ RequestDelete
    \/ TamperSeed
    \/ TamperJWT
    \/ TamperCreds
    \/ ParentChange
    \/ IssuerKeyChange
    \/ ListChange

Spec == Init /\ [][Next]_vars

\* A newly created Account that is not the system account, issued by a Ready
\* Operator, with no SigningKey of its own. Nothing but the reconciler and
\* spec edits act on it; a pass is run again as long as one would change
\* something (the Account's own writes and its owned secrets re-enqueue it,
\* and a pass that returns an error is retried).
LiveInit ==
    /\ Init
    /\ kind = "Account" /\ build = "current"
    /\ obj.issuerKind = "Operator"
    /\ ~parent.sysSelf
    /\ skList = <<>>
LiveNext == AccountReconcile \/ EditSpec
LiveSpec == LiveInit /\ [][LiveNext]_vars /\ WF_vars(AccountReconcile)

\* ------------------------------------------------------- the watch, alone
\* The watch delivers events carrying any object; the map function turns
\* each into requests. The reconciled Account stays as created.
MapInit ==
    /\ kind = "Account" /\ build \in {"current", "previous"}
    /\ obj = [exists |-> TRUE, deleting |-> FALSE, finalizer |-> FALSE,
              spec |-> 0, issuerKind |-> "Operator"]
    /\ status = EmptyStatus
    /\ seedSecret = NoSecret /\ jwtSecret = NoJWT /\ credsSecret = NoCreds
    /\ parent = GoodObj("Operator", "O", 1)
    /\ sk = [GoodObj("SigningKey", "O", MaxKey)
                EXCEPT !.ownerResolved = TRUE, !.ownerKind = "Operator"]
    /\ skList = <<>> /\ remote = {} /\ deleteCalls = 0 /\ budget = 0
    /\ last = Idle
    /\ \E o \in WatchedObjects : watch = [Unwatched EXCEPT !.ev = o]
    /\ api = NoCall
\* The watch hands the event's object to the map function.
MapEvent ==
    /\ watch.ev # NoEvent /\ ~watch.mapped
    /\ watch' = [watch EXCEPT !.mapped = TRUE, !.reqs = SigningKeyRequests(watch.ev)]
    /\ UNCHANGED <<kind, build, api, obj, status, seedSecret, jwtSecret, credsSecret,
                   parent, sk, skList, remote, deleteCalls, budget, last>>
\* The next event arrives.
NextEvent ==
    /\ watch.mapped
    /\ \E o \in WatchedObjects : watch' = [Unwatched EXCEPT !.ev = o]
    /\ UNCHANGED <<kind, build, api, obj, status, seedSecret, jwtSecret, credsSecret,
                   parent, sk, skList, remote, deleteCalls, budget, last>>
MapNext == MapEvent \/ NextEvent
MapSpec == MapInit /\ [][MapNext]_vars

\* ------------------------------------------------------- the list, alone
\* An Account with any selector lists the SigningKeys of any store.
ListInit ==
    /\ kind = "Account" /\ build = "current"
    /\ obj = [exists |-> TRUE, deleting |-> FALSE, finalizer |-> FALSE,
              spec |-> 0, issuerKind |-> "Operator"]
    /\ status = EmptyStatus
    /\ seedSecret = NoSecret /\ jwtSecret = NoJWT /\ credsSecret = NoCreds
    /\ parent = GoodObj("Operator", "O", 1)
    /\ sk = [GoodObj("SigningKey", "O", MaxKey)
                EXCEPT !.ownerResolved = TRUE, !.ownerKind = "Operator"]
    /\ skList = <<>> /\ remote = {} /\ deleteCalls = 0 /\ budget = 0
    /\ last = Idle /\ watch = Unwatched
    /\ \E s \in LabelSelectors, st \in SigningKeyStores : api = ListCall(s, st)
\* The signing-key stage builds its list options and the store answers.
ListKeys ==
    /\ api.op = "List" /\ ~api.done
    /\ LET o == SigningKeysListOptions(api.selector) IN
       api' = [api EXCEPT
                  !.done = TRUE, !.err = o.err, !.labelSelector = o.labelSelector,
                  !.items = IF o.err THEN {}
                            ELSE ListSigningKeys(AccountNamespace, o, api.store)]
    /\ UNCHANGED <<kind, build, obj, status, seedSecret, jwtSecret, credsSecret,
                   parent, sk, skList, remote, deleteCalls, budget, last, watch>>
\* Another Account, another store.
NextListing ==
    /\ api.op = "List" /\ api.done
    /\ \E s \in LabelSelectors, st \in SigningKeyStores : api' = ListCall(s, st)
    /\ UNCHANGED <<kind, build, obj, status, seedSecret, jwtSecret, credsSecret,
                   parent, sk, skList, remote, deleteCalls, budget, last, watch>>
ListNext == ListKeys \/ NextListing
ListSpec == ListInit /\ [][ListNext]_vars

\* ------------------------------------------------------ the fetch, alone
\* A resource of any namespace resolves any issuer reference in any store.
GetInit ==
    /\ kind = "Account" /\ build = "current"
    /\ obj = [exists |-> TRUE, deleting |-> FALSE, finalizer |-> FALSE,
              spec |-> 0, issuerKind |-> "Operator"]
    /\ status = EmptyStatus
    /\ seedSecret = NoSecret /\ jwtSecret = NoJWT /\ credsSecret = NoCreds
    /\ parent = GoodObj("Operator", "O", 1)
    /\ sk = [GoodObj("SigningKey", "O", MaxKey)
                EXCEPT !.ownerResolved = TRUE, !.ownerKind = "Operator"]
    /\ skList = <<>> /\ remote = {} /\ deleteCalls = 0 /\ budget = 0
    /\ last = Idle /\ watch = Unwatched
    /\ \E r \in IssuerRefs, ns \in ResourceNamespaces, st \in ObjectStores :
          api = GetCall(r, ns, st)
\* resolveIssuer fetches the issuer, and the store answers found or not.
GetIssuer ==
    /\ api.op = "Get" /\ ~api.done
    /\ LET key == IssuerObjectKey(api.ref, api.fallback) IN
       api' = [api EXCEPT !.done = TRUE, !.key = key, !.found = key \in api.store]
    /\ UNCHANGED <<kind, build, obj, status, seedSecret, jwtSecret, credsSecret,
                   parent, sk, skList, remote, deleteCalls, budget, last, watch>>
\* Another resource, another reference.
NextGet ==
    /\ api.op = "Get" /\ api.done
    /\ \E r \in IssuerRefs, ns \in ResourceNamespaces, st \in ObjectStores :
          api' = GetCall(r, ns, st)
    /\ UNCHANGED <<kind, build, obj, status, seedSecret, jwtSecret, credsSecret,
                   parent, sk, skList, remote, deleteCalls, budget, last, watch>>
GetNext == GetIssuer \/ NextGet
GetSpec == GetInit /\ [][GetNext]_vars

\* ------------------------------------- the Account and its SigningKeys
\* Account A of namespace "ns" is reconciled by one worker fed from a work
\* queue, while its SigningKeys change in the store. A pass lists the keys
\* when it starts (a snapshot, no lock) and commits when it ends; the keys
\* may change in between. Every SigningKey event goes through the map
\* function; an update is mapped for its old and its new object.
AccountRequest == Request("ns", "A")
RefA == Ref(<<AccountsGroup, AccountsVersion>>, "Account", "ns", "A")
RefB == Ref(<<AccountsGroup, AccountsVersion>>, "Account", "ns", "B")
StoredKey(k, e, r, o) ==
    [name |-> k.name, pk |-> k.pk, exists |-> e, ready |-> r, ownerRef |-> o]
StoredKeys(k) ==
    {StoredKey(k, e, r, o) : e \in BOOLEAN, r \in BOOLEAN, o \in {NoRef, RefA, RefB}}
\* SigningKeys(acc.Namespace).List: the stored keys as the filter sees them.
Listed(keys) ==
    LET Exists(k) == k.exists
        sel == SelectSeq(keys, Exists)
    IN  [i \in DOMAIN sel |->
            [name |-> sel[i].name, pk |-> sel[i].pk, ready |-> sel[i].ready,
             mine |-> sel[i].ownerRef = RefA]]
\* The requests the watch queues for an event on key old, now key new: a
\* created key is mapped as new, a deleted one as old, an updated one as
\* both.
AsObject(k) == [kind |-> "SigningKey", ownerRef |-> k.ownerRef]
EventRequests(old, new) ==
    (IF old.exists THEN Range(SigningKeyRequests(AsObject(old))) ELSE {})
        \cup (IF new.exists THEN Range(SigningKeyRequests(AsObject(new))) ELSE {})

WatchInit ==
    /\ kind = "Account" /\ build = "current"
    /\ obj = [exists |-> TRUE, deleting |-> FALSE, finalizer |-> FALSE,
              spec |-> 0, issuerKind |-> "Operator"]
    /\ status = EmptyStatus
    /\ seedSecret = NoSecret /\ jwtSecret = NoJWT /\ credsSecret = NoCreds
    /\ parent = GoodObj("Operator", "O", 1)
    /\ sk = [GoodObj("SigningKey", "O", MaxKey)
                EXCEPT !.ownerResolved = TRUE, !.ownerKind = "Operator"]
    /\ skList = <<>> /\ remote = {} /\ deleteCalls = 0 /\ budget = MaxEnv
    /\ last = Idle
    /\ \E a \in StoredKeys(Key1), b \in {StoredKey(Key2, TRUE, TRUE, RefA)} :
          watch = [Unwatched EXCEPT !.keys = <<a, b>>, !.queue = {AccountRequest}]
    /\ api = NoCall

\* A SigningKey is created, updated or deleted, and the watch queues the
\* requests of the event.
SigningKeyEvent ==
    /\ Env
    /\ \E i \in DOMAIN watch.keys : \E new \in StoredKeys(watch.keys[i]) :
          /\ new # watch.keys[i]
          /\ watch.keys[i].exists \/ new.exists
          /\ watch' = [watch EXCEPT
                          !.keys[i] = new,
                          !.queue = @ \cup EventRequests(watch.keys[i], new)]
    /\ UNCHANGED <<kind, build, api, obj, status, seedSecret, jwtSecret, credsSecret,
                   parent, sk, skList, remote, deleteCalls>>

\* The worker takes the Account's request off the queue and the pass lists
\* the SigningKeys.
StartPass ==
    /\ ~watch.running /\ AccountRequest \in watch.queue
    /\ watch' = [watch EXCEPT !.running = TRUE, !.queue = @ \ {AccountRequest}]
    /\ skList' = Listed(watch.keys)
    /\ UNCHANGED <<kind, build, api, obj, status, seedSecret, jwtSecret, credsSecret,
                   parent, sk, remote, deleteCalls, budget, last>>

\* The failures injected into a pass: of the listing and of the token update.
WatchFaults == {"none", "listSK", "updateJWT"}

\* The pass ends. A returned error puts the request back; so does every
\* write of the pass to the Account's status or to a secret it owns, through
\* the watches on the Account and on its secrets.
FinishPass ==
    /\ watch.running
    /\ \E f \in IF budget > 0 THEN WatchFaults ELSE {"none"} :
       \E m \in {Acc_Reconcile(f, FreshKey, IssueTime)},
          m0 \in {Acc_Reconcile("none", FreshKey, IssueTime)} :
          Commit(m, m0, f)
    /\ watch' = [watch EXCEPT
                    !.running = FALSE,
                    !.queue = IF last'.err \/ last'.writes # <<>>
                                 \/ (last'.wrote /\ ~last'.wfail)
                                 \/ obj'.finalizer # obj.finalizer
                              THEN @ \cup {AccountRequest} ELSE @]
    /\ UNCHANGED api

\* A request for another Account goes to that Account's worker.
OtherPass ==
    /\ \E r \in watch.queue \ {AccountRequest} :
          watch' = [watch EXCEPT !.queue = @ \ {r}]
    /\ UNCHANGED <<kind, build, api, obj, status, seedSecret, jwtSecret, credsSecret,
                   parent, sk, skList, remote, deleteCalls, budget, last>>

WatchNext == SigningKeyEvent \/ StartPass \/ FinishPass \/ OtherPass
WatchSpec ==
    WatchInit /\ [][WatchNext]_vars /\ WF_vars(StartPass) /\ WF_vars(FinishPass)

\* ------------------------------------------------------------------ claims
\* The last step was a reconcile pass over an existing resource.
Pass == last.op = "Reconcile" /\ last.stage # "notfound"
RemoteOps == {"Load", "Connect", "Push", "Delete"}
NoRemoteCall(calls) == \A i \in DOMAIN calls : calls[i] \notin RemoteOps
Before(calls, a, b) ==
    \A i, j \in DOMAIN calls : calls[i] = a /\ calls[j] = b => i < j
\* The operator, its seed, the system account and the connection options
\* finalization needs are all available.
FinalizeAvailable ==
    /\ last.st.ownerRef = ParentName
    /\ parent.exists /\ parent.hasKP
    /\ parent.seed.exists /\ parent.seed.has /\ SeedDecodes(parent.seed.seed)
    /\ parent.sys = "ok" /\ parent.tls = "ok"
\* The pass found a seed secret whose seed decodes to another public key than
\* the one the status records.
SeedMismatch ==
    /\ last.pre.seed.exists /\ last.pre.seed.has
    /\ SeedDecodes(last.pre.seed.seed)
    /\ last.pre.keyPair.set
    /\ PubOf(last.pre.seed.seed) # last.pre.keyPair.pk
\* The pass went past its seed stage.
PastSeed == last.stage \notin {"", "notfound", "finalizer", "seed"}
\* The token stage compared a stored token that equals the canonical claims
\* in everything but the issuance time.
StoredTokenCanonical ==
    /\ last.want # NoClaims
    /\ last.pre.jwt.exists /\ last.pre.jwt.has
    /\ Decodes(last.pre.jwt.jwt)
    /\ ClaimsEqual(last.pre.jwt.jwt.claims, last.want)

\* C1: an Account whose token the remote authority holds loses its finalizer
\* only in a pass whose delete-by-public-key succeeded or that found the
\* Operator or the system account absent.
C1_FinalizerKeptUntilRevoked ==
    (Pass /\ last.removed /\ last.pre.pushed)
        => last.fz \in {"deleted", "absentOp", "absentSys"}

\* C2 as stated: by the time the finalizer of an Account with both conditions
\* True and an available Operator is removed, delete-by-public-key has been
\* invoked exactly once.
C2_DeleteExactlyOnce ==
    (Pass /\ last.removed /\ last.fz = "deleted") => deleteCalls = 1

\* C2 amended: a pass that finalizes an Account with both conditions True
\* and an available Operator invokes delete-by-public-key at most once,
\* exactly once when none of its calls fails, always before it removes the
\* finalizer, and removes the finalizer only after the delete succeeded.
C2_DeleteOncePerPassBeforeRemoval ==
    (Pass /\ last.deleting /\ last.pre.finalizer /\ last.pre.jwtReady
          /\ last.pre.jwtPushed /\ FinalizeAvailable)
        => /\ Count(last.calls, "Delete") <= 1
           /\ Before(last.calls, "Delete", "RemoveFinalizer")
           /\ Has(last.calls, "RemoveFinalizer") =>
                 /\ Count(last.calls, "Delete") = 1
                 /\ last.pre.keyPair.pk \notin remote
           /\ last.f = "none" => Count(last.calls, "Delete") = 1 /\ last.removed
           /\ last.removed => last.fz = "deleted" /\ deleteCalls >= 1
C2_Witness ==
    /\ Pass /\ last.deleting /\ last.pre.finalizer /\ last.pre.jwtReady
    /\ last.pre.jwtPushed /\ FinalizeAvailable
    /\ last.removed /\ last.pre.pushed /\ remote = {}
    /\ last.calls = <<"GetOperator", "Load", "Connect", "Delete", "RemoveFinalizer">>

\* C3: finalizing an Account whose JWT-ready or JWT-pushed condition is not
\* True looks up no Operator, makes no remote call, reports success, and the
\* finalizer is removed.
C3_UnmetConditionSkips ==
    (Pass /\ last.deleting /\ last.pre.finalizer
          /\ (~last.pre.jwtReady \/ ~last.pre.jwtPushed))
        => /\ ~Has(last.calls, "GetOperator")
           /\ NoRemoteCall(last.calls)
           /\ last.fz \in {"skipJWT", "skipPush"}
           /\ Has(last.calls, "RemoveFinalizer")
           /\ last.f # "finalizerWrite" => last.removed /\ ~obj.exists
C3_Witness ==
    /\ Pass /\ last.deleting /\ last.pre.finalizer
    /\ last.pre.jwtReady /\ ~last.pre.jwtPushed
    /\ last.removed /\ ~obj.exists /\ last.calls = <<"RemoveFinalizer">>

\* C4: a pass over a converged resource, with nothing changed since the
\* pass that converged it, writes no secret, makes no remote call and leaves
\* the status as it was.
C4_Idempotent ==
    (Pass /\ last.pre.converged /\ last.f = "none" /\ ~last.wfail)
        => /\ last.writes = <<>>
           /\ NoRemoteCall(last.calls)
           /\ ~last.wrote

\* C5: when the stored token equals the canonical claims in every field but
\* the issuance time, the token stage writes no JWT secret, returns the
\* stored token and marks JWT-ready True.
C5_TimestampInsensitive ==
    (Pass /\ StoredTokenCanonical)
        => /\ ~Has(last.writes, "createJWT") /\ ~Has(last.writes, "updateJWT")
           /\ jwtSecret = last.pre.jwt
           /\ last.token = last.pre.jwt.jwt
           /\ IsTrue(last.st, "JWTSecretReady")
C5_Witness ==
    /\ Pass /\ StoredTokenCanonical
    /\ last.pre.jwt.jwt.claims.iat # last.want.iat
    /\ last.token = last.pre.jwt.jwt /\ jwtSecret = last.pre.jwt
    /\ IsTrue(last.st, "JWTSecretReady")

\* C6: at the end of a pass that leaves the resource Ready, the stored token
\* decodes to the canonical claims of the current spec, issuer and signing
\* keys (issuance time aside).
C6_ReadyImpliesCanonical ==
    (Pass /\ ~last.deleting /\ IsReady(kind, last.st))
        => /\ jwtSecret.exists /\ jwtSecret.has /\ Decodes(jwtSecret.jwt)
           /\ ClaimsEqual(jwtSecret.jwt.claims,
                          CanonicalClaims(last.st, obj.spec,
                                          IssuerObject(obj.issuerKind).pk, 0))

\* C7: a pass that finds the seed secret decoding to another public key than
\* the recorded one ends with the seed-secret condition False, returns no
\* error and leaves the recorded key pair as it was.
C7_MismatchFails ==
    (Pass /\ ~last.deleting /\ last.f = "none" /\ ~last.wfail /\ SeedMismatch)
        => /\ last.st.conds["SeedSecretReady"].s = "False"
           /\ ~last.err
           /\ last.st.keyPair = last.pre.keyPair

\* C8: after a pass whose seed stage marked the seed-secret condition True,
\* the recorded public key is the one the stored seed derives, under the
\* recorded secret name.
C8_KeyPairMatchesSeed ==
    (Pass /\ PastSeed /\ ~last.removed)
        => /\ seedSecret.exists /\ SeedDecodes(seedSecret.seed)
           /\ last.st.keyPair.set
           /\ last.st.keyPair.secret = SeedSecretName
           /\ last.st.keyPair.pk = PubOf(seedSecret.seed)
           /\ ~last.wfail => status.keyPair.pk = PubOf(seedSecret.seed)
C8_Witness ==
    /\ Pass /\ PastSeed /\ SeedMismatch
    /\ last.st.keyPair.pk = PubOf(seedSecret.seed)
    /\ last.st.keyPair.pk # last.pre.keyPair.pk

\* C9: a pass that finds a seed secret draws no new key pair and leaves the
\* seed bytes as they were; it may only repair the secret's other fields.
C9_SeedNeverRegenerated ==
    (Pass /\ last.pre.seed.exists /\ ~last.removed)
        => /\ seedSecret.exists
           /\ seedSecret.seed = last.pre.seed.seed
           /\ seedSecret.has = last.pre.seed.has
           /\ ~Has(last.writes, "createSeed")
           /\ ~Has(last.events, "SeedSecretCreated")
C9_Witness ==
    /\ Pass /\ last.pre.seed.exists /\ last.pre.seed.drift
    /\ Has(last.writes, "updateSeed")
    /\ seedSecret.seed = last.pre.seed.seed /\ ~seedSecret.drift

\* C10: a pass over the resolved Operator's system account makes no
\* system-account load, connect or push, and its publication stage marks
\* JWT-pushed True.
C10_SystemAccountNotPushed ==
    (Pass /\ last.sysSelf)
        => /\ NoRemoteCall(last.calls)
           /\ last.stage \in {"publish", "done"} =>
                 last.stage = "done" /\ IsTrue(last.st, "JWTPushed")
C10_Witness ==
    /\ Pass /\ last.sysSelf /\ last.stage = "done"
    /\ IsTrue(last.st, "JWTPushed") /\ Has(last.writes, "createJWT")
    /\ remote = {}

\* C11: a newly created Account that is not the system account, issued by a
\* Ready Operator and with no SigningKey of its own, eventually has all six
\* conditions True, the Operator recorded as its owner, an empty signing-key
\* membership, its token stored and its public key held by the remote
\* authority, when passes are scheduled fairly.
C11_Ready ==
    /\ \A c \in AccountConds : IsTrue(status, c)
    /\ status.ownerRef = ParentName
    /\ status.sks = <<>>
    /\ jwtSecret.exists /\ jwtSecret.has /\ Decodes(jwtSecret.jwt)
    /\ status.keyPair.set /\ status.keyPair.pk \in remote
C11_EventuallyReady == <>C11_Ready
C11_Witness ==
    /\ C11_Ready /\ Pass /\ last.stage = "done" /\ ~last.err
    /\ budget = MaxEnv
    /\ jwtSecret.jwt.claims.sub = status.keyPair.pk

\* A pass of the previous Account reconciler.
PrevPass == last.op = "ReconcilePrevious"
\* The pass went past the stage that resolves the signing-key membership.
PastKeys ==
    /\ kind = "Account"
    /\ \/ Pass /\ last.stage \in {"issuerSeed", "token", "publish", "panic", "done"}
       \/ PrevPass /\ last.stage \in {"secrets", "done"}
\* The listed SigningKeys that are ready and owned by the Account.
Qualifying == {Entry(k) : k \in {x \in Range(skList) : x.ready /\ x.mine}}

C13_ChangeNotifiedIffSetDiffers ==
    (Pass /\ PastKeys)
        => /\ Has(last.events, "SigningKeysChanged")
                 <=> Range(last.st.sks) # Range(last.pre.sks)
           /\ Count(last.events, "SigningKeysChanged") <= 1
C13_Witness ==
    /\ Pass /\ PastKeys
    /\ last.pre.sks = <<Entry(Key1), Entry(Key2)>>
    /\ skList = <<Key2, Key1>>
    /\ last.st.sks = last.pre.sks
    /\ ~Has(last.events, "SigningKeysChanged")

\* What resolveIssuer returned to the pass that stopped in its issuer stage.
IssuerResult == resolveIssuer(obj.issuerKind, last.f)
\* C14: when resolveIssuer returns an error, Reconcile (Account and User)
\* records it on the issuer-resolved condition, False for a Failed condition
\* error and Unknown otherwise, with its reason. A handled error is not
\* returned: the pass returns an error only if its status write failed. An
\* unhandled error is returned.
C14_HandledErrorNotReturned ==
    (Pass /\ last.stage = "issuer")
        => /\ IssuerResult.ce.k # "nil"
           /\ last.st.conds["IssuerResolved"]
                = [s |-> IF IssuerResult.ce.k = "Failed" THEN "False" ELSE "Unknown",
                   r |-> IssuerResult.ce.r]
           /\ IssuerResult.ok => (last.err <=> last.wfail)
           /\ ~IssuerResult.ok => last.err
C14_Witness ==
    /\ Pass /\ last.stage = "issuer" /\ kind = "User"
    /\ IssuerResult = Res(NoObj, TRUE, ConditionFailed("NotFound"))
    /\ last.st.conds["IssuerResolved"].s = "False"
    /\ last.wrote /\ ~last.err
C14_WitnessUnhandled ==
    /\ Pass /\ last.stage = "issuer" /\ kind = "Account"
    /\ ~IssuerResult.ok
    /\ last.st.conds["IssuerResolved"].s = "Unknown"
    /\ last.err /\ ~last.wfail

\* The issuer the spec names is not one the resource accepts: neither its
\* parent kind nor a SigningKey whose recorded owner is of the parent kind.
UnacceptedIssuer ==
    /\ obj.issuerKind # ParentKind(kind)
    /\ obj.issuerKind = "SigningKey" => sk.ownerKind # ParentKind(kind)
\* The pass resolved its issuer and went on to resolve the owner.
ReachedOwner ==
    Pass /\ last.stage \notin {"finalizer", "seed", "issuer"}
\* C15: a pass that resolves an issuer the resource does not accept marks
\* the owner-resolved condition Failed, returns no error of its own, and
\* neither creates, updates nor pushes a token.
C15_OnlyParentIssues ==
    (ReachedOwner /\ UnacceptedIssuer)
        => /\ last.st.conds["OwnerResolved"].s = "False"
           /\ last.err <=> last.wfail
           /\ ~Has(last.writes, "createJWT") /\ ~Has(last.writes, "updateJWT")
           /\ ~Has(last.calls, "Push")

\* The pass ran finalizeAccount and it returned an error.
FinalizeFailed == Pass /\ last.fz = "failed"
\* C16: when finalization fails, Reconcile returns the error, no attempt is
\* made to remove the finalizer, and the Account stays in the store with its
\* deletion marker and its finalizer; and every pass over an Account that
\* carries both calls finalizeAccount.
C16_FailedFinalizationRetried ==
    /\ [](FinalizeFailed
            => /\ last.err /\ ~last.removed
               /\ ~Has(last.calls, "RemoveFinalizer")
               /\ obj.exists /\ obj.deleting /\ obj.finalizer)
    /\ [][(obj.exists /\ obj.deleting /\ obj.finalizer /\ last'.op = "Reconcile")
            => last'.stage = "finalizer" /\ last'.fz # "none"]_vars
C16_Witness ==
    /\ FinalizeFailed /\ last.f = "delete"
    /\ last.calls = <<"GetOperator", "Load", "Connect", "Delete">>
    /\ last.err /\ obj.exists /\ obj.deleting /\ obj.finalizer
    /\ last.st.keyPair.pk \in remote

\* The pass finalized an Account whose two conditions were True.
FinalizeGated ==
    /\ Pass /\ last.deleting /\ last.pre.finalizer
    /\ last.pre.jwtReady /\ last.pre.jwtPushed
\* The Get of the operator the status names reports not found.
OperatorNotFound ==
    /\ last.f # "getOperator"
    /\ ~(last.st.ownerRef = ParentName /\ parent.exists)
\* The operator and its seed are read, and the loader reports that the
\* system account is not found.
SystemAccountNotFound ==
    /\ last.f \notin {"getOperator", "getOperatorSeed", "sysLoad"}
    /\ last.st.ownerRef = ParentName /\ parent.exists /\ parent.hasKP
    /\ parent.seed.exists /\ parent.seed.has /\ SeedDecodes(parent.seed.seed)
    /\ parent.sys # "ok"
C17_WitnessOperator ==
    /\ FinalizeGated /\ OperatorNotFound /\ ~parent.exists
    /\ last.calls = <<"GetOperator", "RemoveFinalizer">>
    /\ last.removed /\ ~obj.exists /\ ~last.err

\* The token stage compared a stored token that does not decode, or that
\* decodes to claims differing from the canonical ones in more than the
\* issuance time.
StoredTokenStale ==
    /\ last.want # NoClaims
    /\ last.pre.jwt.exists /\ last.pre.jwt.has
    /\ \/ ~Decodes(last.pre.jwt.jwt)
       \/ ~ClaimsEqual(last.pre.jwt.jwt.claims, last.want)
\* C18: a pass (Account or User) whose token stage finds a stale stored
\* token and whose update of the secret succeeds stores the candidate signed
\* over the canonical claims, hands that candidate on, and marks JWT-ready
\* True.
C18_StaleTokenReplaced ==
    (Pass /\ StoredTokenStale /\ last.f # "updateJWT")
        => /\ Count(last.writes, "updateJWT") = 1
           /\ jwtSecret = JWTSecretOf(Sign(last.want))
           /\ last.token = Sign(last.want)
           /\ IsTrue(last.st, "JWTSecretReady")
C18_Witness ==
    /\ Pass /\ StoredTokenStale /\ kind = "User"
    /\ ~Decodes(last.pre.jwt.jwt)
    /\ jwtSecret = JWTSecretOf(Sign(last.want))
    /\ last.token = Sign(last.want)
    /\ IsTrue(last.st, "JWTSecretReady")
C18_WitnessDiffers ==
    /\ Pass /\ StoredTokenStale /\ kind = "Account"
    /\ Decodes(last.pre.jwt.jwt)
    /\ last.pre.jwt.jwt.claims.spec # last.want.spec
    /\ jwtSecret = JWTSecretOf(Sign(last.want))
    /\ IsTrue(last.st, "JWTSecretReady")

\* A step is a pass of either build over a resource the store holds.
AnyPass == last.op \in {"Reconcile", "ReconcilePrevious"} /\ last.stage # "notfound"
C19_WitnessWritten ==
    /\ AnyPass /\ last.wrote /\ last.sw = "ok" /\ status = last.st
    /\ last.writes # <<>>

\* C20: a pass whose status write meets a conflict ends with a requeue after
\* the fixed delay and returns no error.
C20_ConflictRequeuedNotFailed ==
    (AnyPass /\ last.sw = "conflict")
        => last.requeue = RequeueDelay /\ ~last.err
\* What the two builds do instead: both return the conflict as an error; the
\* previous one also sets the delay, the current one does not.
C20_ConflictReturned ==
    (AnyPass /\ last.sw = "conflict")
        => /\ last.err /\ last.wfail
           /\ last.op = "Reconcile"
                 => last.requeue = 0
           /\ (last.op = "ReconcilePrevious")
                 => last.requeue = RequeueDelay

\* The watch mapped a SigningKey event.


MappedSigningKey == watch.mapped /\ watch.ev.kind = "SigningKey"
\* C21: the watch maps a SigningKey event to exactly one request, for the
\* namespace and name of the owner reference, when the reference is set and
\* its kind is Account, and to none otherwise.
C21_OwnerAccountEnqueued ==
    MappedSigningKey
        => watch.reqs =
             (IF watch.ev.ownerRef.set /\ watch.ev.ownerRef.kind = "Account"
              THEN <<Request(watch.ev.ownerRef.namespace, watch.ev.ownerRef.name)>>
              ELSE <<>>)
\* C21 amended: one request, for the namespace and name of the owner
\* reference, when the reference is set and names the Account kind of the
\* accounts.nats.io group at version v1alpha1; none when it is unset, of
\* another kind, or of another group or version.
C21_OwnerAccountGVKEnqueued ==
    MappedSigningKey
        => watch.reqs =
             (IF /\ watch.ev.ownerRef.set
                 /\ watch.ev.ownerRef.kind = "Account"
                 /\ watch.ev.ownerRef.apiVersion = <<AccountsGroup, AccountsVersion>>
              THEN <<Request(watch.ev.ownerRef.namespace, watch.ev.ownerRef.name)>>
              ELSE <<>>)
C21_Witness ==
    /\ MappedSigningKey
    /\ watch.ev.ownerRef = Ref(<<AccountsGroup, AccountsVersion>>, "Account", "ns", "A")
    /\ watch.reqs = <<Request("ns", "A")>>
C21_WitnessOtherVersion ==
    /\ MappedSigningKey
    /\ watch.ev.ownerRef = Ref(<<AccountsGroup, "v1beta1">>, "Account", "ns", "A")
    /\ watch.reqs = <<>>

\* The stored SigningKey is ready and its resolved owner is Account A.
Qualified(k) == k.exists /\ k.ready /\ k.ownerRef = RefA
\* The Account's recorded membership and its persisted token hold the key.
Included(k) ==
    /\ [name |-> k.name, pk |-> k.pk] \in Range(status.sks)
    /\ jwtSecret.exists /\ jwtSecret.has /\ Decodes(jwtSecret.jwt)
    /\ k.pk \in jwtSecret.jwt.claims.sks
Excluded(k) ==
    /\ [name |-> k.name, pk |-> k.pk] \notin Range(status.sks)
    /\ jwtSecret.exists /\ jwtSecret.has /\ Decodes(jwtSecret.jwt)
    /\ k.pk \notin jwtSecret.jwt.claims.sks
KeyConverged(i) ==
    IF Qualified(watch.keys[i]) THEN Included(watch.keys[i])
    ELSE Excluded(watch.keys[i])
\* C22: with the Account's passes and its SigningKeys' changes interleaved,
\* each key that from some point on stays ready and owned by the Account is
\* from some point on in the recorded membership and in the persisted
\* token, and each key that from some point on stays otherwise is from some
\* point on in neither.
C22_MembershipConverges ==
    /\ <>[]Qualified(watch.keys[1]) => <>[]Included(watch.keys[1])
    /\ <>[]~Qualified(watch.keys[1]) => <>[]Excluded(watch.keys[1])
    /\ <>[]Qualified(watch.keys[2]) => <>[]Included(watch.keys[2])
    /\ <>[]~Qualified(watch.keys[2]) => <>[]Excluded(watch.keys[2])
C22_Witness ==
    /\ Pass /\ ~watch.running
    /\ last.pre.sks = <<Entry(Key1), Entry(Key2)>>
    /\ status.sks = <<Entry(Key1)>>
    /\ Qualified(watch.keys[1]) /\ Included(watch.keys[1])
    /\ ~Qualified(watch.keys[2]) /\ Excluded(watch.keys[2])
C22_WitnessIncluded ==
    /\ Pass /\ ~watch.running
    /\ last.pre.sks = <<Entry(Key2)>>
    /\ status.sks = <<Entry(Key2), Entry(Key1)>>
    /\ Included(watch.keys[1]) /\ Included(watch.keys[2])

\* The pass built the canonical claims, wrote a token or pushed one.
TokenTouched ==
    \/ last.want # NoClaims \/ last.token # NoToken
    \/ Has(last.writes, "createJWT") \/ Has(last.writes, "updateJWT")
    \/ Has(last.calls, "Push")
\* C23: a pass builds, persists or pushes a token only after its owner
\* resolution ended with the owner resolved.
C23_TokenOnlyAfterOwnerResolved ==
    (Pass /\ TokenTouched) => IsTrue(last.st, "OwnerResolved")
\* The order itself: a pass that stopped in a stage did nothing that belongs
\* to a later one.
C23_StagesInOrder ==
    Pass =>
        /\ last.stage \in {"finalizer", "seed", "issuer", "owner"}
              => ~TokenTouched /\ ~Has(last.events, "SigningKeysChanged")
        /\ last.stage \in {"finalizer", "seed"}
              => ~IsTrue(last.st, "OwnerResolved") \/ IsTrue(status, "OwnerResolved")
        /\ last.stage \in {"keys", "issuerSeed", "token"} => ~Has(last.calls, "Push")
        /\ Has(last.calls, "Push") => last.token # NoToken

\* C24: a pass that finds no JWT secret and creates it ends with the
\* JWT-ready condition True.
C24_CreatedTokenMarkedReady ==
    (Pass /\ ~last.pre.jwt.exists /\ Has(last.writes, "createJWT"))
        => /\ jwtSecret = JWTSecretOf(Sign(last.want))
           /\ IsTrue(last.st, "JWTSecretReady")
\* What holds instead: the secret holds the candidate, and JWT-ready is what
\* it was when the pass began.
C24_CreatedTokenNotMarked ==
    (Pass /\ ~last.pre.jwt.exists /\ Has(last.writes, "createJWT"))
        => /\ jwtSecret = JWTSecretOf(Sign(last.want))
           /\ IsTrue(last.st, "JWTSecretReady") <=> last.pre.jwtReady

\* The seed stage found a seed secret without the seed field, or with a seed
\* that does not decode.
SeedSecretInvalid ==
    /\ Pass /\ last.stage = "seed" /\ last.f # "getSeed"
    /\ last.pre.seed.exists
    /\ ~last.pre.seed.has \/ ~SeedDecodes(last.pre.seed.seed)
\* C25: a pass of an Account or a User that finds an invalid seed secret
\* ends with the seed-secret condition Failed and returns no error of its
\* own.
C25_InvalidSeedNotRetried ==
    SeedSecretInvalid
        => /\ last.st.conds["SeedSecretReady"] = [s |-> "False", r |-> "InvalidSeedSecret"]
           /\ last.err <=> last.wfail
\* What holds: the condition is Failed for both kinds; the Account returns
\* no error, the User returns the condition error.
C25_InvalidSeedFailsCondition ==
    SeedSecretInvalid
        => /\ last.st.conds["SeedSecretReady"] = [s |-> "False", r |-> "InvalidSeedSecret"]
           /\ last.writes = <<>>
           /\ kind = "Account" => (last.err <=> last.wfail)
           /\ kind = "User" => last.err

\* The seed stage found no seed secret and the store refused the new one.
SeedCreateRefused ==
    Pass /\ last.stage = "seed" /\ ~last.pre.seed.exists /\ last.f = "createSeed"
\* C26: when the store refuses the new seed secret the seed-secret condition
\* is Unknown and the error is returned; the condition is Failed only when
\* the key pair could not be generated.
C26_CreateFailureIsUnknown ==
    /\ SeedCreateRefused
          => last.st.conds["SeedSecretReady"].s = "Unknown" /\ last.err
    /\ (Pass /\ last.stage = "seed" /\ ~last.pre.seed.exists
             /\ last.st.conds["SeedSecretReady"].s = "False")
          => last.f = "keygen"
\* What holds: a refused creation and a failed generation both leave the
\* condition Failed with reason UnknownError, and both return the error.
C26_CreateFailureIsFailed ==
    (Pass /\ last.stage = "seed" /\ ~last.pre.seed.exists
          /\ last.f \in {"createSeed", "keygen"})
        => /\ last.st.conds["SeedSecretReady"] = [s |-> "False", r |-> "UnknownError"]
           /\ last.err /\ last.writes = <<>> /\ seedSecret = NoSecret

\* The pass stopped where it loads the issuer's seed, because the seed's
\* public key is not the one in the issuer's status.
IssuerKeyMismatch ==
    /\ Pass /\ last.stage \in {"issuerSeed", "token"}
    /\ last.st.conds["IssuerResolved"] = [s |-> "False", r |-> "PublicKeyMismatch"]
\* C27: on a public-key mismatch of the issuer's seed a pass of an Account or
\* a User marks issuer-resolved Failed (PublicKeyMismatch), returns no error
\* of its own and writes no token.
C27_MismatchNotRetried ==
    IssuerKeyMismatch
        => /\ last.err <=> last.wfail
           /\ ~TokenTouched /\ jwtSecret = last.pre.jwt
\* What holds: no token for either kind; the Account returns no error, the
\* User returns the condition error.
C27_MismatchFailsCondition ==
    IssuerKeyMismatch
        => /\ ~TokenTouched /\ jwtSecret = last.pre.jwt
           /\ kind = "Account" => (last.err <=> last.wfail)
           /\ kind = "User" => last.err

\* The issuer reference names a registered kind and the object is absent.
IssuerAbsent ==
    obj.issuerKind \in SchemeKinds /\ ~IssuerObject(obj.issuerKind).exists
\* C28: when the referenced issuer does not exist, resolveIssuer returns
\* handled with a Failed(NotFound) condition error: the pass ends in its
\* issuer stage with issuer-resolved False, no error of its own, no requeue
\* and no token. Any other failure of the fetch returns unhandled with an
\* Unknown(UnknownError) condition error, and the pass returns the error.
C28_AbsentIssuerHandled ==
    /\ (Pass /\ last.stage = "issuer" /\ last.f # "getIssuer" /\ IssuerAbsent)
          => /\ IssuerResult = Res(NoObj, TRUE, ConditionFailed("NotFound"))
             /\ last.st.conds["IssuerResolved"] = [s |-> "False", r |-> "NotFound"]
             /\ last.err <=> last.wfail
             /\ last.requeue = 0
             /\ ~TokenTouched /\ jwtSecret = last.pre.jwt
    /\ (Pass /\ last.stage = "issuer" /\ last.f = "getIssuer")
          => /\ IssuerResult = Res(NoObj, FALSE, ConditionUnknown("UnknownError"))
             /\ last.st.conds["IssuerResolved"] = [s |-> "Unknown", r |-> "UnknownError"]
             /\ last.err
C28_Witness ==
    /\ Pass /\ last.stage = "issuer" /\ last.f = "none" /\ IssuerAbsent
    /\ kind = "Account" /\ ~parent.exists
    /\ last.st.conds["IssuerResolved"] = [s |-> "False", r |-> "NotFound"]
    /\ ~last.err /\ last.requeue = 0
C28_WitnessFetchError ==
    /\ Pass /\ last.stage = "issuer" /\ last.f = "getIssuer" /\ kind = "User"
    /\ last.st.conds["IssuerResolved"] = [s |-> "Unknown", r |-> "UnknownError"]
    /\ last.err /\ ~last.wfail

\* The issuer reference names an existing object of a registered kind whose
\* seed-secret-ready condition is not True (Unknown when never initialized).
IssuerNotReady ==
    /\ obj.issuerKind \in SchemeKinds
    /\ IssuerObject(obj.issuerKind).exists
    /\ ~IssuerObject(obj.issuerKind).seedReady
\* C29: a pass that fetches an issuer whose seed-secret-ready condition is
\* not True gets no key-pair holder from resolveIssuer, handled, with an
\* Unknown(NotReady) condition error: it stops in its issuer stage with
\* issuer-resolved Unknown, returns no error of its own and signs no token.
C29_UnreadyIssuerWaits ==
    (Pass /\ last.stage \notin {"finalizer", "seed"} /\ last.f # "getIssuer"
          /\ IssuerNotReady)
        => /\ last.stage = "issuer"
           /\ IssuerResult = Res(NoObj, TRUE, ConditionUnknown("NotReady"))
           /\ last.st.conds["IssuerResolved"] = [s |-> "Unknown", r |-> "NotReady"]
           /\ last.err <=> last.wfail
           /\ ~TokenTouched /\ jwtSecret = last.pre.jwt
C29_Witness ==
    /\ Pass /\ last.stage = "issuer" /\ last.f = "none" /\ IssuerNotReady
    /\ obj.issuerKind = "SigningKey" /\ ~sk.seedReady
    /\ last.st.conds["IssuerResolved"] = [s |-> "Unknown", r |-> "NotReady"]
    /\ ~last.err /\ last.token = NoToken

\* The pass of an Account that is not the operator's system account came to
\* publish its token.
PublishTried ==
    /\ Pass /\ kind = "Account" /\ ~last.sysSelf
    /\ last.stage \in {"publish", "done"}
\* C30: when a non-system Account's pass fails to load the system account,
\* to build the connection options, to connect or to push, JWT-pushed is
\* marked False and the error is returned; the pass marks JWT-pushed True
\* only after its own push succeeded.
C30_PushFailureMarkedAndReturned ==
    /\ (PublishTried /\ last.stage = "publish")
          => /\ last.st.conds["JWTPushed"]
                   = [s |-> "False",
                      r |-> IF last.f = "push" THEN "JWTPushError" ELSE "UnknownError"]
             /\ last.err
             /\ last.f \in {"sysLoad", "natsOpts", "connect", "push"}
                   \/ parent.sys # "ok" \/ parent.tls # "ok"
    /\ (PublishTried /\ last.stage = "done")
          => /\ IsTrue(last.st, "JWTPushed")
             /\ Has(last.calls, "Push") /\ last.token.claims.sub \in remote
    /\ (Pass /\ kind = "Account" /\ ~last.sysSelf /\ last.stage # "panic"
             /\ IsTrue(last.st, "JWTPushed") /\ ~last.pre.jwtPushed)
          => /\ last.stage = "done"
             /\ Has(last.calls, "Push") /\ last.token.claims.sub \in remote
C30_Witness ==
    /\ PublishTried /\ last.stage = "publish" /\ last.f = "push"
    /\ last.pre.jwtPushed
    /\ last.st.conds["JWTPushed"] = [s |-> "False", r |-> "JWTPushError"]
    /\ last.err /\ Has(last.calls, "Push")
C30_WitnessPushed ==
    /\ PublishTried /\ last.stage = "done" /\ ~last.pre.jwtPushed
    /\ IsTrue(last.st, "JWTPushed") /\ last.token.claims.sub \in remote

\* The pass of an Account went past its signing-key stage: the listing
\* succeeded.
KeysListed ==
    /\ Pass /\ kind = "Account"
    /\ last.stage \in {"issuerSeed", "token", "publish", "panic", "done"}
\* C31: whenever the listing of SigningKeys succeeds the pass records the
\* resolved membership in the status and marks signing-keys-updated True,
\* also when the membership is empty or unchanged, and goes on; the stored
\* status holds both unless the status write failed. The pass stops in the
\* signing-key stage only when the listing failed.
C31_MembershipAlwaysWritten ==
    /\ KeysListed
          => /\ last.st.sks = NextSigningKeys(last.pre.sks, skList)
             /\ IsTrue(last.st, "SigningKeysUpdated")
             /\ ~last.wfail
                   => status.sks = last.st.sks /\ IsTrue(status, "SigningKeysUpdated")
    /\ (Pass /\ last.stage = "keys") => last.f = "listSK" /\ last.err
C31_Witness ==
    /\ KeysListed /\ last.stage = "done"
    /\ skList = <<>> /\ last.pre.sks = <<>> /\ last.pre.keyPair = NoKeyPair
    /\ status.sks = <<>> /\ IsTrue(status, "SigningKeysUpdated")
    /\ ~Has(last.events, "SigningKeysChanged")
C31_WitnessUnchanged ==
    /\ KeysListed /\ last.pre.sks # <<>> /\ last.st.sks = last.pre.sks
    /\ IsTrue(status, "SigningKeysUpdated")

\* The SigningKeys of the Account's namespace.
InNamespace == {k \in api.store : k.namespace = AccountNamespace}
\* C32: with no selector in the Account's spec every SigningKey of the
\* Account's namespace is listed; with a selector exactly those of the
\* namespace whose labels carry every match-label.
C32_UnsetSelectorMatchesEverything ==
    (api.op = "List" /\ api.done /\ ~api.err)
        => /\ ~api.selector.set => api.items = InNamespace
           /\ api.selector.set
                 => api.items = {k \in InNamespace :
                                    \A p \in api.selector.matchLabels : p \in k.labels}
C32_Witness ==
    /\ api.op = "List" /\ api.done /\ ~api.err /\ ~api.selector.set
    /\ Cardinality(api.items) = 2
    /\ \E k \in api.items : k.labels = {}
C32_WitnessSet ==
    /\ api.op = "List" /\ api.done /\ ~api.err
    /\ api.selector = LabelSelector({<<"env", "x">>, <<"team", "a">>}, FALSE)
    /\ Cardinality(InNamespace) = 2 /\ Cardinality(api.items) = 1

\* C33: resolveIssuer fetches the issuer by the reference's name, in the
\* reference's namespace when it names one and in the fallback namespace
\* (the reconciled resource's own) when it does not; the issuer is found
\* exactly when the store holds an object under that key.
C33_NamespaceDefaultsToFallback ==
    (api.op = "Get" /\ api.done)
        => /\ api.key.name = api.ref.name
           /\ api.ref.namespace # "" => api.key.namespace = api.ref.namespace
           /\ api.ref.namespace = "" => api.key.namespace = api.fallback
           /\ api.found <=> api.key \in api.store
C33_Witness ==
    /\ api.op = "Get" /\ api.done
    /\ api.ref.namespace = "other" /\ api.fallback = "ns" /\ api.ref.name = "A"
    /\ api.store = {Request("ns", "A")}
    /\ api.key = Request("other", "A") /\ ~api.found
C33_WitnessFallback ==
    /\ api.op = "Get" /\ api.done
    /\ api.ref.namespace = "" /\ api.fallback = "other" /\ api.ref.name = "A"
    /\ api.store = {Request("other", "A")}
    /\ api.key = Request("other", "A") /\ api.found

\* The two conditions finalization tests are what they were in the stored
\* status when the pass began.
GatesKept ==
    /\ IsTrue(last.st, "JWTSecretReady") <=> last.pre.jwtReady
    /\ IsTrue(last.st, "JWTPushed") <=> last.pre.jwtPushed
\* C34: a finalization that ends in an error leaves the JWT-ready and
\* JWT-pushed conditions as they were, in the pass and in the stored status.
C34_FailedFinalizationKeepsGates ==
    (Pass /\ last.fz = "failed")
        => /\ GatesKept
           /\ IsTrue(status, "JWTSecretReady") /\ IsTrue(status, "JWTPushed")
\* What holds: every failed finalization but the one that could not build the
\* connection options keeps both; that one marks JWT-pushed False, and the
\* stored status follows unless the status write failed.
C34_OptionsFailureClearsPushed ==
    (Pass /\ last.fz = "failed")
        => /\ last.pre.jwtReady /\ last.pre.jwtPushed
           /\ IsTrue(last.st, "JWTSecretReady")
           /\ IsTrue(last.st, "JWTPushed")
                 <=> ~(last.f = "natsOpts" \/ (parent.tls # "ok" /\ Has(last.calls, "Load")
                                                 /\ ~Has(last.calls, "Connect")
                                                 /\ last.f # "sysLoad"))
           /\ (~IsTrue(last.st, "JWTPushed") /\ ~last.wfail) => ~IsTrue(status, "JWTPushed")
\* The retry: the pass that follows a failed finalization does not skip the
\* revocation for a condition that is not True.
C34_RetryContactsRemote ==
    [][(Pass /\ last.fz = "failed" /\ last' # last /\ last'.op = "Reconcile")
          => last'.fz \notin {"skipJWT", "skipPush"}]_vars

\* C35: the pass of an Account without the finalizer writes the finalizer
\* first, and stops with the error, having done nothing else, when that write
\* fails; a pass that went past its finalizer stage, and so any pass that
\* pushed the token, leaves the finalizer in the store.
C35_FinalizerBeforePush ==
    (Pass /\ kind = "Account" /\ ~last.deleting)
        => /\ ~last.pre.finalizer
                 => /\ last.calls # <<>> /\ last.calls[1] = "AddFinalizer"
                    /\ last.f = "finalizerWrite"
                          => /\ last.stage = "finalizer" /\ last.err
                             /\ ~obj.finalizer
                             /\ last.writes = <<>> /\ last.calls = <<"AddFinalizer">>
           /\ last.stage # "finalizer" => obj.finalizer
           /\ Has(last.calls, "Push") => obj.finalizer
C35_Witness ==
    /\ Pass /\ kind = "Account" /\ ~last.deleting /\ ~last.pre.finalizer
    /\ last.calls[1] = "AddFinalizer" /\ Has(last.calls, "Push")
    /\ obj.finalizer /\ remote # {}
C35_WitnessWriteFailed ==
    /\ Pass /\ kind = "Account" /\ ~last.pre.finalizer /\ last.f = "finalizerWrite"
    /\ last.stage = "finalizer" /\ last.err /\ ~obj.finalizer /\ remote = {}

\* What a finalizer branch may call: the operator and system account
\* lookups, the connection, the delete by public key, the finalizer write.
FinalizerCalls == {"GetOperator", "Load", "Connect", "Delete", "RemoveFinalizer"}
\* C36: the pass of an Account that carries a deletion marker runs only the
\* finalizer branch and returns: it generates no key pair, writes no secret,
\* emits no event and pushes nothing; it calls at most the lookups, one
\* delete by public key and the finalizer removal.
C36_DeletingPassOnlyFinalizes ==
    (Pass /\ kind = "Account" /\ last.deleting)
        => /\ last.stage = "finalizer"
           /\ last.writes = <<>> /\ last.events = <<>>
           /\ \A i \in DOMAIN last.calls : last.calls[i] \in FinalizerCalls
           /\ Count(last.calls, "Delete") <= 1
           /\ last.st.keyPair = last.pre.keyPair
           /\ last.want = NoClaims /\ last.token = NoToken
           /\ ~last.removed
                 => /\ seedSecret = last.pre.seed /\ jwtSecret = last.pre.jwt
                    /\ status.keyPair = last.pre.keyPair
C36_Witness ==
    /\ Pass /\ kind = "Account" /\ last.deleting /\ last.removed
    /\ last.fz = "deleted"
    /\ last.calls = <<"GetOperator", "Load", "Connect", "Delete", "RemoveFinalizer">>
    /\ last.writes = <<>> /\ remote = {}
C36_WitnessKept ==
    /\ Pass /\ kind = "Account" /\ last.deleting /\ ~last.removed
    /\ last.fz = "failed" /\ seedSecret.exists /\ jwtSecret.exists

\* The pass stopped in its token stage on an injected failure.
TokenStageFailed ==
    Pass /\ last.stage = "token" /\ last.f \in {"claims", "getJWT", "createJWT", "updateJWT"}
\* C37: a failure in the token stage leaves the seed-secret-ready condition
\* True, the value the seed stage of the same pass gave it.
C37_TokenFailureKeepsSeedCondition ==
    TokenStageFailed => IsTrue(last.st, "SeedSecretReady")
\* What holds: a failed update of the JWT secret marks seed-secret-ready
\* Unknown, and leaves JWT-ready as the pass found it; every other failure
\* of the stage keeps seed-secret-ready True.
C37_UpdateFailureMarksSeedUnknown ==
    TokenStageFailed
        => /\ last.f # "updateJWT" => IsTrue(last.st, "SeedSecretReady")
           /\ last.f = "updateJWT"
                 => /\ last.err
                    /\ last.st.conds["SeedSecretReady"] = [s |-> "Unknown", r |-> "UnknownError"]
                    /\ IsTrue(last.st, "JWTSecretReady") <=> last.pre.jwtReady
                    /\ jwtSecret = last.pre.jwt

\* The stored seed of the issuer the spec names is the seed of its level and
\* of the public key in the issuer's status.
IssuerSeedSound ==
    LET i == IssuerObject(obj.issuerKind) IN
    /\ i.exists /\ i.hasKP /\ i.seed.exists /\ i.seed.has
    /\ SeedDecodes(i.seed.seed)
    /\ i.seed.seed.p = PrefixOf(ParentKind(kind))
    /\ PubOf(i.seed.seed) = i.pk
\* The pass wrote the JWT secret.
TokenWritten == Has(last.writes, "createJWT") \/ Has(last.writes, "updateJWT")
\* C38: a pass writes the JWT secret only when the issuer's seed has the
\* prefix of the issuing level and derives the public key of the issuer's
\* status. A pass that comes to load a seed secret without the seed field,
\* with an undecodable seed, a wrong prefix or another public key stops
\* there with issuer-resolved not True and writes no JWT secret.
C38_TokenOnlyFromSoundIssuerSeed ==
    /\ (Pass /\ TokenWritten)
          => /\ IssuerSeedSound /\ IsTrue(last.st, "IssuerResolved")
             /\ last.token.claims.iss = IssuerObject(obj.issuerKind).pk
    /\ (Pass /\ last.stage \notin {"finalizer", "seed", "issuer", "owner", "keys"}
             /\ obj.issuerKind \in SchemeKinds
             /\ IssuerObject(obj.issuerKind).seed.exists /\ ~IssuerSeedSound)
          => /\ last.stage \in {"issuerSeed", "token"}
             /\ ~IsTrue(last.st, "IssuerResolved")
             /\ ~TokenWritten /\ jwtSecret = last.pre.jwt /\ last.token = NoToken
C38_Witness ==
    /\ Pass /\ kind = "Account" /\ last.stage = "issuerSeed" /\ last.f = "none"
    /\ parent.seed.exists /\ parent.seed.has /\ SeedDecodes(parent.seed.seed)
    /\ parent.seed.seed.p # PrefixOf("Operator")
    /\ last.st.conds["IssuerResolved"] = [s |-> "False", r |-> "MalformedSeedSecret"]
    /\ ~TokenWritten
C38_WitnessUndecodable ==
    /\ Pass /\ kind = "User" /\ last.stage = "token" /\ last.f = "none"
    /\ parent.seed.exists /\ parent.seed.has /\ ~SeedDecodes(parent.seed.seed)
    /\ last.st.conds["IssuerResolved"] = [s |-> "False", r |-> "MalformedSeedSecret"]
    /\ ~TokenWritten /\ ~last.err
C38_WitnessNoField ==
    /\ Pass /\ kind = "Account" /\ last.stage = "issuerSeed" /\ last.f = "none"
    /\ parent.seed.exists /\ ~parent.seed.has
    /\ last.st.conds["IssuerResolved"] = [s |-> "False", r |-> "MalformedSeedSecret"]
    /\ ~TokenWritten /\ ~last.err
C38_WitnessWritten ==
    /\ Pass /\ kind = "User" /\ TokenWritten /\ IssuerSeedSound
    /\ obj.issuerKind = "SigningKey"

\* C39: in a pass of the Account or User reconciler, a status changed before
\* a stage returned its error is still written when the pass ends, and the
\* store holds it unless that write failed; a failed status write makes the
\* pass return an error, also when no stage did.
C39_StatusWrittenDespiteError ==
    [][(last'.op = "Reconcile" /\ last'.stage # "notfound")
          => /\ (last'.err /\ status # last'.st) => last'.wrote
             /\ (last'.err /\ last'.wrote /\ ~last'.wfail) => status' = last'.st
             /\ last'.wfail => last'.err /\ last'.wrote /\ status' = status]_vars
C39_Witness ==
    /\ Pass /\ kind = "Account" /\ last.stage = "publish" /\ last.f = "push"
    /\ last.err /\ last.wrote /\ ~last.wfail
    /\ status = last.st
    /\ status.conds["JWTPushed"] = [s |-> "False", r |-> "JWTPushError"]
C39_WitnessWriteFailed ==
    /\ Pass /\ kind = "User" /\ last.stage = "done" /\ last.f = "none"
    /\ last.wfail /\ last.err /\ status # last.st

\* The pass of a User went through its credentials stage.
CredentialsDone == Pass /\ kind = "User" /\ last.stage = "done"
\* The bundle of the token the token stage returned and the User's seed.
WantedCreds == CredsOf(last.token, seedSecret.seed)
\* C40: after a pass of a User that completes its credentials stage, the
\* credentials secret holds the bundle of the User's seed and the token the
\* token stage returned, which is the stored token when the JWT secret was
\* kept and the fresh candidate when it was written, and credentials-ready is
\* True; the pass writes the secret once when it differed from that bundle
\* and not at all when it already held it.
C40_CredentialsHoldTokenAndSeed ==
    CredentialsDone
        => /\ credsSecret = WantedCreds
           /\ last.token = jwtSecret.jwt
           /\ last.token = (IF TokenWritten THEN Sign(last.want) ELSE last.pre.jwt.jwt)
           /\ IsTrue(last.st, "CredentialsSecretReady")
           /\ ~last.wfail => IsTrue(status, "CredentialsSecretReady")
           /\ last.pre.creds = WantedCreds
                 => ~Has(last.writes, "createCreds") /\ ~Has(last.writes, "updateCreds")
           /\ last.pre.creds # WantedCreds
                 => Count(last.writes, "createCreds") + Count(last.writes, "updateCreds") = 1
C40_Witness ==
    /\ CredentialsDone /\ ~TokenWritten /\ last.pre.jwt.exists
    /\ last.pre.creds = WantedCreds /\ credsSecret = WantedCreds
    /\ last.writes = <<>> /\ IsTrue(status, "CredentialsSecretReady")
C40_WitnessUpdated ==
    /\ CredentialsDone /\ Has(last.writes, "updateJWT") /\ Has(last.writes, "updateCreds")
    /\ last.pre.creds.exists /\ last.pre.creds # credsSecret
    /\ credsSecret = CredsOf(Sign(last.want), seedSecret.seed)
====
